---- MODULE Spec2Model ----
(***************************************************************************)
(* LoginEveryForm: the worker thread that drives a batch of login attempts *)
(* (main.py, LoginWorker), one attempt's state machine                     *)
(* (browser_automation.py, BrowserAutomation.attempt_login) and the window *)
(* that starts and stops runs and receives the worker's signals            *)
(* (main.py, MainWindow).                                                  *)
(*                                                                         *)
(* The worker and the window run on two threads.  The worker's signals are *)
(* delivered to the window through the window thread's event queue, in the *)
(* order they were emitted.  The only variable the two threads share is    *)
(* LoginWorker._is_running.  Every await of the worker is one step; each   *)
(* call of the browser driver returns, times out or fails.                 *)
(***************************************************************************)
EXTENDS Integers, Sequences, FiniteSets, TLC

\* Number of credentials a loaded file holds at most.
NumCreds == 2
\* Number of LoginWorker threads that can be alive at the same time.
MaxWorkers == 2

\* Number of patterns that match an element of a page snapshot at most.
MaxPresent == 2

\* The calls of _verify_login_success, or of detect_login_form, followed on
\* one page snapshot.
MaxCalls == 2

\* The length of a constructor argument of Credential at most, and the number
\* of characters of the three arguments together.
MaxLen == 3
MaxChars == 5

Workers == 1..MaxWorkers

None == "None"

\* LoginStatus (browser_automation.py)
LoginStatus ==
    {"SUCCESS", "FAILED", "ERROR", "CAPTCHA_REQUIRED", "TIMEOUT", "ELEMENT_NOT_FOUND"}

\* What a call of the browser driver can do: return, raise PlaywrightTimeout,
\* raise another exception.
Outcomes == {"ok", "timeout", "error"}

\* A selector map: the roles in S hold the selector v, the others None.
Selectors(S, v) ==
    [username |-> IF "username" \in S THEN v ELSE None,
     password |-> IF "password" \in S THEN v ELSE None,
     captcha |-> IF "captcha" \in S THEN v ELSE None,
     submit |-> IF "submit" \in S THEN v ELSE None]

\* The selector fields of the window as a run is started: each role holds a
\* selector the user typed ("explicit") or is left blank (None).
SelectorInputs ==
    { Selectors(S, "explicit") :
        S \in { {}, {"password"}, {"username", "password"},
                {"username", "password", "captcha", "submit"} } }

\* What detect_login_form returns for the pages of the run: per role the
\* pattern that matched ("detected") or None.
Detections ==
    { Selectors(S, "detected") :
        S \in { {}, {"password", "captcha", "submit"}, {"username", "password"},
                {"username", "password", "captcha", "submit"} } }

VARIABLES
    wk,         \* wk[w]: the LoginWorker object w and the locals of its _async_run
    att,        \* att[w]: the locals of the attempt_login call worker w is in
    queue,      \* the window thread's event queue: the signals not yet handled
    gui,        \* the MainWindow: buttons, self.results, self.worker
    cancel_at,  \* history: where the current worker was when stop was first clicked
    stopping,   \* the number of worker threads that are in automation.stop()
    cls,        \* one call of _verify_login_success: its arguments and what it returned
    det,        \* one call of detect_login_form: the page and the selectors returned
    cred,       \* one Credential: the constructor's arguments and the object's fields
    shot,       \* one call of _save_screenshot: its arguments and the path returned
    summ,       \* one result sequence and the counts computed from it
    mrg         \* one resolution of the selectors of an attempt: arguments and locals

vars == <<wk, att, queue, gui, cancel_at, stopping, cls, det, cred, shot, summ, mrg>>

NoSelectors == Selectors({}, None)

\* A LoginWorker that does not exist (its slot is free).
NoWorker ==
    [pc |-> "done", is_running |-> TRUE, credentials |-> 0, selectors |-> NoSelectors,
     automation |-> "none", pages |-> 0, idx |-> 0, results |-> <<>>,
     nstarted |-> 0, delays |-> {}]

\* LoginWorker.__init__ followed by QThread.start
NewWorker(n, s) ==
    [pc |-> "construct", is_running |-> TRUE, credentials |-> n, selectors |-> s,
     automation |-> "none", pages |-> 0, idx |-> 0, results |-> <<>>,
     nstarted |-> 0, delays |-> {}]

\* LoginResult.__init__
LoginResult(status, message, screenshot_path) ==
    [status |-> status, message |-> message, screenshot_path |-> screenshot_path]

\* No return statement of attempt_login has been executed.
NoResult == LoginResult(None, None, None)

\* _verify_login_success has not returned in the attempt.
NotClassified == [is_success |-> FALSE, by_url_change |-> FALSE]

\* The last step of the attempt caught no exception of the calls it made.
NothingCaught == [step |-> None, exc |-> "none"]

\* The locals of attempt_login on entry: the selector arguments, page = None,
\* screenshot_path = None.  ret is the LoginResult of the return statement that
\* was executed and exc the exception being handled.  History: log, the calls
\* made on the collaborators in this attempt, in order; failed, the call
\* that raised exc; classified, what _verify_login_success returned and
\* whether its URL test decided; caught, the exception that the step executed
\* last (detect_login_form, solve_captcha or _verify_login_success) caught
\* and dropped.
NoAttempt ==
    [page |-> "none", username_selector |-> None, password_selector |-> None,
     captcha_selector |-> None, submit_selector |-> None,
     captcha_text |-> None, screenshot_path |-> None, ret |-> NoResult,
     exc |-> "none", failed |-> None, log |-> <<>>,
     classified |-> NotClassified, caught |-> NothingCaught]

EnterAttempt(s) ==
    [NoAttempt EXCEPT !.username_selector = s.username,
                      !.password_selector = s.password,
                      !.captcha_selector = s.captcha,
                      !.submit_selector = s.submit]

\* Stop has not been clicked in the current run.
NotCancelled == [completed |-> 0, phase |-> "none"]

\* A page as _verify_login_success sees it: page.url, the patterns for which
\* query_selector returns an element, and the pattern (if any, else the empty
\* string) on which query_selector raises exc.
PageSnapshot(url, present, raising, exc) ==
    [url |-> url, present |-> present, raising |-> raising, exc |-> exc]

\* What _verify_login_success returned: the boolean, the return statement that
\* gave it (by the check that decided, or "except"), the patterns probed in order, and the
\* exception its except clause caught.
Verdict(is_success, layer, probes, exc) ==
    [is_success |-> is_success, layer |-> layer, probes |-> probes, exc |-> exc]

NoVerdict == Verdict(FALSE, "none", <<>>, "none")

\* No call of _verify_login_success is being followed.
NoCall ==
    [pc |-> "none", page |-> PageSnapshot(<<>>, {}, <<>>, "none"),
     original_url |-> <<>>, success_indicator |-> <<>>, verdict |-> NoVerdict,
     first |-> NoVerdict, calls |-> 0]

\* No call of detect_login_form is being followed.
NoDetection ==
    [pc |-> "none", dom |-> [found |-> {}, failing |-> {}],
     selectors |-> NoSelectors, caught |-> FALSE, first |-> NoSelectors, calls |-> 0]

\* A string of a Credential is the sequence of its characters; Python's None,
\* where a string is expected, is the one-element sequence <<None>>.
NoString == <<None>>

\* No Credential is being followed.
NoCredential ==
    [pc |-> "none",
     args |-> [username |-> NoString, password |-> NoString, note |-> NoString],
     obj |-> [username |-> <<>>, password |-> <<>>, note |-> <<>>], valid |-> FALSE]

\* No call of _save_screenshot is being followed.
NoScreenshot ==
    [pc |-> "none", username |-> <<>>, timestamp |-> 0, suffix |-> <<>>,
     filename |-> <<>>, path |-> <<>>]

\* No result sequence is being followed.
\* No selector resolution is followed.
NoMerge ==
    [pc |-> "none", explicit |-> NoSelectors, detected |-> NoSelectors,
     ran |-> FALSE, selectors |-> NoSelectors]

NoSummary ==
    [pc |-> "none", results |-> <<>>, shown |-> <<>>,
     summary |-> [total |-> 0, success |-> 0, failed |-> 0, errors |-> 0],
     statistics |-> [total |-> 0, success |-> 0, failed |-> 0, errors |-> 0]]

Init ==
    /\ wk = [w \in Workers |-> NoWorker]
    /\ att = [w \in Workers |-> NoAttempt]
    /\ queue = <<>>
    /\ gui = [start_enabled |-> TRUE, stop_enabled |-> FALSE,
              results |-> <<>>, worker |-> 0]
    /\ cancel_at = NotCancelled
    /\ stopping = 0
    /\ cls = NoCall
    /\ det = NoDetection
    /\ cred = NoCredential
    /\ shot = NoScreenshot
    /\ summ = NoSummary
    /\ mrg = NoMerge

-----------------------------------------------------------------------------
(* The window thread's event queue                                         *)

\* Signal.emit from the worker thread: the call of the connected slot is
\* posted to the window thread's queue.
Emit(w, signal, arg) == Append(queue, [from |-> w, signal |-> signal, arg |-> arg])

\* The pc values at which a worker is inside attempt_login.
AttemptPcs ==
    {"new_page", "goto", "wait_idle", "detect", "fill_username", "fill_password",
     "captcha", "fill_captcha", "submit", "settle", "screenshot", "verify",
     "handler", "finally"}

InFlight(w) == wk[w].pc \in AttemptPcs

\* The number of attempts of worker w that have returned a result.
Completed(w) == Len(wk[w].results) + (IF wk[w].pc = "append" THEN 1 ELSE 0)

-----------------------------------------------------------------------------
(* MainWindow                                                              *)

\* Variant of start_verification that leaves the start button enabled during the run.
ButtonsAfterStart_StartEnabled == [start |-> TRUE, stop |-> TRUE]

\* start_verification, "Update UI": the start button is disabled and the
\* stop button enabled for the duration of the run.
ButtonsAfterStart == [start |-> FALSE, stop |-> TRUE]

\* verification_finished and handle_error: the buttons after a run.
ButtonsAfterRun == [start |-> TRUE, stop |-> FALSE]

\* The number of worker threads that have not ended.
Alive == Cardinality({w \in Workers : wk[w].pc # "done"}) + stopping

\* A click on "Start Verification" with n loaded credentials and the selector
\* fields holding s.  The button emits clicked only while it is enabled; with
\* no url or no credentials the handler returns at once.  The new LoginWorker
\* replaces self.worker and its thread starts.
StartVerification ==
    /\ gui.start_enabled
    /\ \E w \in Workers, n \in 1..NumCreds, s \in SelectorInputs :
        /\ wk[w].pc = "done"
        /\ \A v \in Workers : v < w => wk[v].pc # "done"
        /\ Alive < MaxWorkers
        /\ wk' = [wk EXCEPT ![w] = NewWorker(n, s)]
        /\ att' = [att EXCEPT ![w] = NoAttempt]
        /\ gui' = [start_enabled |-> ButtonsAfterStart.start,
                   stop_enabled |-> ButtonsAfterStart.stop,
                   results |-> <<>>, worker |-> w]
        /\ cancel_at' = NotCancelled
        /\ UNCHANGED <<queue, stopping, cls, det, cred, shot, summ, mrg>>

\* The loop of worker w has been left: _is_running is not read again.
LoopLeft(w) == wk[w].pc \in {"emit_finished", "emit_error", "done"}

\* LoginWorker.stop
stop(worker) == [worker EXCEPT !.is_running = FALSE]

\* A click on "Stop Verification": stop_verification calls self.worker.stop(),
\* which clears _is_running.  The write to a worker whose loop has been left
\* changes nothing that is read again and is not recorded.
StopVerification ==
    /\ gui.stop_enabled
    /\ gui.worker # 0
    /\ wk' = IF LoopLeft(gui.worker) THEN wk
             ELSE [wk EXCEPT ![gui.worker] = stop(@)]
    /\ cancel_at' =
          IF cancel_at # NotCancelled THEN cancel_at
          ELSE [completed |-> Completed(gui.worker),
                phase |-> IF InFlight(gui.worker) THEN "inflight"
                          ELSE IF LoopLeft(gui.worker) THEN "ended" ELSE "between"]
    /\ UNCHANGED <<att, queue, gui, stopping, cls, det, cred, shot, summ, mrg>>

\* update_progress: the progress bar and the status line only.
UpdateProgress ==
    /\ queue # <<>>
    /\ Head(queue).signal = "progress"
    /\ queue' = Tail(queue)
    /\ UNCHANGED <<wk, att, gui, cancel_at, stopping, cls, det, cred, shot, summ, mrg>>

\* add_result: the result is appended to self.results, a row is added to the
\* table and the statistics are recomputed from self.results.
AddResult ==
    /\ queue # <<>>
    /\ Head(queue).signal = "result"
    /\ queue' = Tail(queue)
    /\ gui' = [gui EXCEPT !.results = Append(@, Head(queue).arg)]
    /\ UNCHANGED <<wk, att, cancel_at, stopping, cls, det, cred, shot, summ, mrg>>

\* verification_finished
VerificationFinished ==
    /\ queue # <<>>
    /\ Head(queue).signal = "finished"
    /\ queue' = Tail(queue)
    /\ gui' = [gui EXCEPT !.start_enabled = ButtonsAfterRun.start,
                          !.stop_enabled = ButtonsAfterRun.stop]
    /\ UNCHANGED <<wk, att, cancel_at, stopping, cls, det, cred, shot, summ, mrg>>

\* handle_error
HandleError ==
    /\ queue # <<>>
    /\ Head(queue).signal = "error"
    /\ queue' = Tail(queue)
    /\ gui' = [gui EXCEPT !.start_enabled = ButtonsAfterRun.start,
                          !.stop_enabled = ButtonsAfterRun.stop]
    /\ UNCHANGED <<wk, att, cancel_at, stopping, cls, det, cred, shot, summ, mrg>>

\* update_statistics: total, success, failed, errors of a result sequence.
CountStatus(rs, S) == Cardinality({i \in 1..Len(rs) : rs[i].status \in S})

update_statistics(rs) ==
    [total |-> Len(rs),
     success |-> CountStatus(rs, {"SUCCESS"}),
     failed |-> CountStatus(rs, {"FAILED"}),
     errors |-> Len(rs) - CountStatus(rs, {"SUCCESS"}) - CountStatus(rs, {"FAILED"})]

-----------------------------------------------------------------------------
(* LoginWorker._async_run                                                  *)

\* BrowserAutomation(...): the constructor creates the screenshot directory
\* and the captcha recogniser, and either may raise.
Construct(w) ==
    /\ wk[w].pc = "construct"
    /\ \E ok \in BOOLEAN :
        wk' = [wk EXCEPT ![w].automation = IF ok THEN "constructed" ELSE "none",
                         ![w].pc = IF ok THEN "start" ELSE "emit_error"]
    /\ UNCHANGED <<att, queue, gui, cancel_at, stopping, cls, det, cred, shot, summ, mrg>>

\* Variant of start that logs the exception and returns: the loop is entered
\* without a browser.
StartBrowser_FailureNotRaised(w) ==
    /\ wk[w].pc = "start"
    /\ \E ok \in BOOLEAN :
        wk' = [wk EXCEPT ![w].automation = IF ok THEN "started" ELSE "constructed",
                         ![w].idx = 1,
                         ![w].pc = "loop"]
    /\ UNCHANGED <<att, queue, gui, cancel_at, stopping, cls, det, cred, shot, summ, mrg>>

\* await automation.start(): the browser and its context are created, or the
\* exception is logged and raised again.
StartBrowser(w) ==
    /\ wk[w].pc = "start"
    /\ \E ok \in BOOLEAN :
        wk' = [wk EXCEPT ![w].automation = IF ok THEN "started" ELSE "constructed",
                         ![w].idx = IF ok THEN 1 ELSE 0,
                         ![w].pc = IF ok THEN "loop" ELSE "emit_error"]
    /\ UNCHANGED <<att, queue, gui, cancel_at, stopping, cls, det, cred, shot, summ, mrg>>

\* Variant of the loop head that never looks at _is_running.
BreakOnStop_Never(is_running) == FALSE

\* "if not self._is_running: break"
BreakOnStop(is_running) == ~is_running

\* The head of "for idx, credential in enumerate(self.credentials, 1)": the
\* loop ends after the last credential or when _is_running is found cleared;
\* otherwise progress is emitted and attempt_login is entered.
LoopHead(w) ==
    /\ wk[w].pc = "loop"
    /\ IF wk[w].idx > wk[w].credentials \/ BreakOnStop(wk[w].is_running)
       THEN /\ wk' = [wk EXCEPT ![w].pc = "emit_finished"]
            /\ UNCHANGED <<att, queue>>
       ELSE /\ wk' = [wk EXCEPT ![w].pc = "new_page",
                                ![w].nstarted = @ + 1]
            /\ att' = [att EXCEPT ![w] = EnterAttempt(wk[w].selectors)]
            /\ queue' = Emit(w, "progress", wk[w].idx)
    /\ UNCHANGED <<gui, cancel_at, stopping, cls, det, cred, shot, summ, mrg>>

\* Variant of the delay condition that also sleeps after the last credential.
DelayAfter_EveryAttempt(idx, total, is_running) == is_running

\* "if idx < total and self._is_running": whether the delay follows attempt idx.
DelayAfter(idx, total, is_running) == idx < total /\ is_running

\* attempt_login has returned: the result is appended and emitted, and the
\* delay between attempts is entered or skipped.
AppendResult(w) ==
    /\ wk[w].pc = "append"
    /\ LET r == [credential |-> wk[w].idx, status |-> att[w].ret.status]
           delay == DelayAfter(wk[w].idx, wk[w].credentials, wk[w].is_running)
       IN /\ wk' = [wk EXCEPT ![w].results = Append(@, r),
                              ![w].pc = IF delay THEN "sleep" ELSE "loop",
                              ![w].idx = IF delay THEN @ ELSE @ + 1,
                              ![w].delays = IF delay THEN @ \cup {wk[w].idx} ELSE @]
          /\ queue' = Emit(w, "result", r)
    /\ att' = [att EXCEPT ![w] = NoAttempt]
    /\ UNCHANGED <<gui, cancel_at, stopping, cls, det, cred, shot, summ, mrg>>

\* await asyncio.sleep(self.delay / 1000) has returned.
Sleep(w) ==
    /\ wk[w].pc = "sleep"
    /\ wk' = [wk EXCEPT ![w].pc = "loop", ![w].idx = @ + 1]
    /\ UNCHANGED <<att, queue, gui, cancel_at, stopping, cls, det, cred, shot, summ, mrg>>

\* Variant in which an exception leaves automation.stop() after the finished
\* signal: run() catches it and emits the error signal too.
EmitFinished_StopRaises(w) ==
    /\ wk[w].pc = "emit_finished"
    /\ queue' = Emit(w, "finished", wk[w].results)
    /\ wk' = [wk EXCEPT ![w].pc = "emit_error", ![w].automation = "none"]
    /\ stopping' = stopping
    /\ UNCHANGED <<att, gui, cancel_at, cls, det, cred, shot, summ, mrg>>

\* self.finished.emit(results), then the finally clause.  Nothing reads the
\* locals of _async_run or the fields of the worker after the terminal
\* signal: the thread is counted in stopping until automation.stop() returns.
EmitFinished(w) ==
    /\ wk[w].pc = "emit_finished"
    /\ queue' = Emit(w, "finished", wk[w].results)
    /\ wk' = [wk EXCEPT ![w] = NoWorker]
    /\ stopping' = stopping + 1
    /\ UNCHANGED <<att, gui, cancel_at, cls, det, cred, shot, summ, mrg>>

\* Variant without the finally clause: the automation is stopped only after
\* the loop, so a run that ends with an error leaves its browser open.
EmitError_NoStop(w) ==
    /\ wk[w].pc = "emit_error"
    /\ queue' = Emit(w, "error", <<>>)
    /\ wk' = [wk EXCEPT ![w] = NoWorker]
    /\ att' = [att EXCEPT ![w] = NoAttempt]
    /\ stopping' = stopping
    /\ UNCHANGED <<gui, cancel_at, cls, det, cred, shot, summ, mrg>>

\* "except Exception as e: self.error.emit(error_details)", then the finally
\* clause, which stops the automation if it was constructed.
EmitError(w) ==
    /\ wk[w].pc = "emit_error"
    /\ queue' = Emit(w, "error", <<>>)
    /\ wk' = [wk EXCEPT ![w] = NoWorker]
    /\ att' = [att EXCEPT ![w] = NoAttempt]
    /\ stopping' = IF wk[w].automation # "none" THEN stopping + 1 ELSE stopping
    /\ UNCHANGED <<gui, cancel_at, cls, det, cred, shot, summ, mrg>>

\* "finally: if automation: await automation.stop()" returns: stop catches
\* every exception of closing the context and the browser; the thread ends.
StopBrowser ==
    /\ stopping > 0
    /\ stopping' = stopping - 1
    /\ UNCHANGED <<wk, att, queue, gui, cancel_at, cls, det, cred, shot, summ, mrg>>

-----------------------------------------------------------------------------
(* BrowserAutomation._verify_login_success                                 *)

\* Strings are sequences of words; a word stands for the characters it is
\* written with.  str.lower() of a word:
LowerWord(word) ==
    CASE word = "ERROR" -> "error"
      [] word = "Login" -> "login"
      [] word = "SignIn" -> "signin"
      [] OTHER -> word

\* str.lower()
Lower(str) == [i \in DOMAIN str |-> LowerWord(str[i])]

\* "sub in str": sub occurs in str as a contiguous part.
Contains(str, sub) ==
    \E i \in 0..(Len(str) - Len(sub)) : SubSeq(str, i + 1, i + Len(sub)) = sub

\* str.startswith(prefix)
StartsWith(str, prefix) ==
    Len(str) >= Len(prefix) /\ SubSeq(str, 1, Len(prefix)) = prefix

\* ['error', 'login', 'signin']
UrlErrorTokens == {<<"error">>, <<"login">>, <<"signin">>}

\* error_patterns
error_patterns ==
    << <<"text=/error|failed|invalid|incorrect/i">>, <<".error">>, <<".alert-error">>,
       <<".alert-danger">>, <<"#error">> >>

\* success_patterns
success_patterns ==
    << <<"text=/welcome|dashboard|home|profile/i">>, <<".user-menu">>, <<".profile">>,
       <<"#dashboard">> >>

\* "input[type='text'], input[type='email']"
username_field_pattern == <<"input[type='text'], input[type='email']">>

\* await page.query_selector(pattern): an element, None, or an exception.
QuerySelector(page, pattern) ==
    IF pattern = page.raising THEN "raises"
    ELSE IF pattern \in page.present THEN "found" ELSE "absent"

\* "for pattern in patterns: element = await page.query_selector(pattern);
\* if element: ...": the patterns from the i-th on are probed in order up to
\* the first that gives an element or raises.
RECURSIVE FirstElement(_, _, _)
FirstElement(page, patterns, i) ==
    IF i > Len(patterns)
    THEN [hit |-> "absent", probes |-> patterns]
    ELSE IF QuerySelector(page, patterns[i]) = "absent"
         THEN FirstElement(page, patterns, i + 1)
         ELSE [hit |-> QuerySelector(page, patterns[i]),
               probes |-> SubSeq(patterns, 1, i)]

\* Variant of the URL test that looks for the tokens in the original URL.
UrlChangedWithoutErrorToken_TokensOfOriginal(current_url, original_url) ==
    /\ current_url # original_url
    /\ ~ \E err \in UrlErrorTokens : Contains(Lower(original_url), err)

\* "current_url != original_url and not any(err in current_url.lower() for
\* err in ['error', 'login', 'signin'])"
UrlChangedWithoutErrorToken(current_url, original_url) ==
    /\ current_url # original_url
    /\ ~ \E err \in UrlErrorTokens : Contains(Lower(current_url), err)

\* "if success_indicator": None and "" are both the empty string here.
Supplied(success_indicator) == success_indicator # <<>>

\* Variant of the indicator check that takes every indicator for a CSS selector.
IsUrlPattern_Never(success_indicator) == FALSE

\* success_indicator.startswith("http")
IsUrlPattern(success_indicator) == StartsWith(success_indicator, <<"http">>)

\* Variant of the except clause that returns True.
ExceptReturn_True(probes, exc) == Verdict(TRUE, "except", probes, exc)

\* "except Exception as e: self.logger.error(...); return False", entered from
\* the probe that raised exc after the probes listed were made.
ExceptReturn(probes, exc) == Verdict(FALSE, "except", probes, exc)

\* Variant of the default that repeats the first URL test.
UrlChanged_WithoutErrorToken(current_url, original_url) ==
    UrlChangedWithoutErrorToken(current_url, original_url)

\* "return current_url != original_url"
UrlChanged(current_url, original_url) == current_url # original_url

\* Variant of the body that looks for the success patterns before the error
\* patterns.
KnownSignals_SuccessFirst(page, original_url, before) ==
    LET e == FirstElement(page, error_patterns, 1)
        s == FirstElement(page, success_patterns, 1)
        u == FirstElement(page, <<username_field_pattern>>, 1)
    IN IF s.hit = "raises" THEN ExceptReturn(before \o s.probes, page.exc)
       ELSE IF s.hit = "found"
            THEN Verdict(TRUE, "success_signal", before \o s.probes, "none")
       ELSE IF e.hit = "raises"
            THEN ExceptReturn(before \o s.probes \o e.probes, page.exc)
       ELSE IF e.hit = "found"
            THEN Verdict(FALSE, "error_signal", before \o s.probes \o e.probes, "none")
       ELSE IF u.hit = "raises"
            THEN ExceptReturn(before \o s.probes \o e.probes \o u.probes, page.exc)
       ELSE IF u.hit = "found"
            THEN Verdict(FALSE, "username_field",
                         before \o s.probes \o e.probes \o u.probes, "none")
       ELSE Verdict(UrlChanged(page.url, original_url), "default",
                    before \o s.probes \o e.probes \o u.probes, "none")

\* The body of _verify_login_success from "Check for common error indicators"
\* on, after the probes before were made; an exception of a probe is caught by
\* the except clause, which returns False.
KnownSignals(page, original_url, before) ==
    LET e == FirstElement(page, error_patterns, 1)
        s == FirstElement(page, success_patterns, 1)
        u == FirstElement(page, <<username_field_pattern>>, 1)
    IN IF e.hit = "raises" THEN ExceptReturn(before \o e.probes, page.exc)
       ELSE IF e.hit = "found" THEN Verdict(FALSE, "error_signal", before \o e.probes, "none")
       ELSE IF s.hit = "raises"
            THEN ExceptReturn(before \o e.probes \o s.probes, page.exc)
       ELSE IF s.hit = "found"
            THEN Verdict(TRUE, "success_signal", before \o e.probes \o s.probes, "none")
       ELSE IF u.hit = "raises"
            THEN ExceptReturn(before \o e.probes \o s.probes \o u.probes, page.exc)
       ELSE IF u.hit = "found"
            THEN Verdict(FALSE, "username_field", before \o e.probes \o s.probes \o u.probes, "none")
       ELSE Verdict(UrlChanged(page.url, original_url), "default",
                    before \o e.probes \o s.probes \o u.probes, "none")

\* _verify_login_success(page, original_url, success_indicator)
verify_login_success(page, original_url, success_indicator) ==
    LET current_url == page.url
        css == FirstElement(page, <<success_indicator>>, 1)
    IN IF UrlChangedWithoutErrorToken(current_url, original_url)
       THEN Verdict(TRUE, "url_changed", <<>>, "none")
       ELSE IF ~Supplied(success_indicator)
            THEN KnownSignals(page, original_url, <<>>)
       ELSE IF IsUrlPattern(success_indicator)
            THEN IF Contains(current_url, success_indicator)
                 THEN Verdict(TRUE, "indicator", <<>>, "none")
                 ELSE KnownSignals(page, original_url, <<>>)
       ELSE IF css.hit = "raises" THEN ExceptReturn(css.probes, page.exc)
       ELSE IF css.hit = "found" THEN Verdict(TRUE, "indicator", css.probes, "none")
       ELSE KnownSignals(page, original_url, css.probes)

\* The URLs of the login page a run is given.
OriginalUrls == { <<"http", "site", "login">>, <<"http", "site">> }

\* The URLs a page can be at after the form was submitted.
CurrentUrls ==
    OriginalUrls \cup
    { <<"http", "site", "dashboard">>, <<"http", "site", "ERROR">>,
      <<"http", "site", "signin">> }

\* The success indicators of the window: none, a URL pattern, a CSS selector.
SuccessIndicators ==
    { <<>>, <<"http", "site", "dashboard">>, <<"http", "site">>, <<"#welcome">> }

\* The patterns _verify_login_success can probe.
ProbedPatterns ==
    { error_patterns[i] : i \in DOMAIN error_patterns } \cup
    { success_patterns[i] : i \in DOMAIN success_patterns } \cup
    { username_field_pattern, <<"#welcome">> }

\* The page snapshots: at most MaxPresent patterns match, at most one raises.
PageSnapshots ==
    { PageSnapshot(u, P, r[1], r[2]) :
        u \in CurrentUrls,
        P \in { S \in SUBSET ProbedPatterns : Cardinality(S) <= MaxPresent },
        r \in { <<<<>>, "none">> } \cup (ProbedPatterns \X {"timeout", "error"}) }

\* Variant of a call in which a probe that finds an element takes it off the
\* page.
VerifyLoginSuccess_ConsumesElements ==
    /\ cls.pc \in {"called", "returned"}
    /\ cls.calls < MaxCalls
    /\ LET v == verify_login_success(cls.page, cls.original_url, cls.success_indicator)
       IN cls' = [cls EXCEPT !.pc = "returned",
                             !.verdict = v,
                             !.first = IF cls.calls = 0 THEN v ELSE @,
                             !.calls = @ + 1,
                             !.page.present =
                                 @ \ {v.probes[i] : i \in DOMAIN v.probes}]
    /\ UNCHANGED <<wk, att, queue, gui, cancel_at, stopping, det, cred, shot, summ, mrg>>

\* A call of _verify_login_success on a page snapshot returns; the page, the
\* original URL and the indicator are only read.  The call can be made again
\* on the same snapshot; first keeps what the first call returned.
VerifyLoginSuccess ==
    /\ cls.pc \in {"called", "returned"}
    /\ cls.calls < MaxCalls
    /\ LET v == verify_login_success(cls.page, cls.original_url, cls.success_indicator)
       IN cls' = [cls EXCEPT !.pc = "returned",
                             !.verdict = v,
                             !.first = IF cls.calls = 0 THEN v ELSE @,
                             !.calls = @ + 1]
    /\ UNCHANGED <<wk, att, queue, gui, cancel_at, stopping, det, cred, shot, summ, mrg>>

\* The calls of _verify_login_success, one per page snapshot, original URL
\* and success indicator; no run is started.
ClassifierInit ==
    /\ wk = [w \in Workers |-> NoWorker]
    /\ att = [w \in Workers |-> NoAttempt]
    /\ queue = <<>>
    /\ gui = [start_enabled |-> FALSE, stop_enabled |-> FALSE,
              results |-> <<>>, worker |-> 0]
    /\ cancel_at = NotCancelled
    /\ stopping = 0
    /\ cls \in { [pc |-> "called", page |-> p, original_url |-> o,
                  success_indicator |-> i, verdict |-> NoVerdict,
                  first |-> NoVerdict, calls |-> 0] :
                   p \in PageSnapshots, o \in OriginalUrls, i \in SuccessIndicators }
    /\ det = NoDetection
    /\ cred = NoCredential
    /\ shot = NoScreenshot
    /\ summ = NoSummary
    /\ mrg = NoMerge

ClassifierNext == VerifyLoginSuccess

ClassifierSpec == ClassifierInit /\ [][ClassifierNext]_vars

\* What a call of _verify_login_success can return to attempt_login: the
\* boolean, whether the URL test gave it, and the exception that was caught.
ClassifierReturns ==
    { [is_success |-> v.is_success, by_url_change |-> v.layer = "url_changed",
       exc |-> v.exc] :
        v \in { verify_login_success(p, o, i) :
                  p \in PageSnapshots, o \in OriginalUrls, i \in SuccessIndicators } }

-----------------------------------------------------------------------------
(* BrowserAutomation.detect_login_form                                     *)

\* A selector pattern is the string of the source; a character outside ASCII
\* is written by its code point.

\* username_patterns
username_patterns ==
    << "input[type='text'][name*='user']", "input[type='text'][name*='login']",
       "input[type='text'][name*='account']", "input[type='email']",
       "input[type='text'][id*='user']", "input[type='text'][id*='login']",
       "input[type='text'][id*='account']", "input[name='username']",
       "input[name='email']", "input[placeholder*='U+7528 U+6237']",
       "input[placeholder*='U+8D26 U+53F7']", "input[placeholder*='U+90AE U+7BB1']",
       "input[placeholder*='username']", "input[placeholder*='email']" >>

\* password_patterns
password_patterns ==
    << "input[type='password']", "input[name*='pass']", "input[id*='pass']",
       "input[placeholder*='U+5BC6 U+7801']", "input[placeholder*='password']" >>

\* captcha_patterns
captcha_patterns ==
    << "input[name*='captcha']", "input[name*='code']", "input[name*='verify']",
       "input[id*='captcha']", "input[id*='code']", "input[id*='verify']",
       "input[placeholder*='U+9A8C U+8BC1 U+7801']", "input[placeholder*='captcha']",
       "input[placeholder*='code']" >>

\* submit_patterns
submit_patterns ==
    << "button[type='submit']", "input[type='submit']",
       "button:has-text('U+767B U+5F55')", "button:has-text('U+767B U+9304')",
       "button:has-text('Login')", "button:has-text('Sign in')",
       "button:has-text('Sign In')", "button[name*='login']", "button[id*='login']",
       "input[value*='U+767B U+5F55']", "input[value*='Login']" >>

\* The keys of the selectors dictionary and the list each is looked for with.
Roles == {"username", "password", "captcha", "submit"}

RolePatterns(role) ==
    CASE role = "username" -> username_patterns
      [] role = "password" -> password_patterns
      [] role = "captcha" -> captcha_patterns
      [] role = "submit" -> submit_patterns

\* A page as detect_login_form sees it: the patterns for which query_selector
\* returns an element and the patterns on which it raises.
DomSnapshot(found, failing) == [found |-> found, failing |-> failing]

\* await page.query_selector(pattern): an element, None, or an exception.
Probe(dom, pattern) ==
    IF pattern \in dom.failing THEN "raises"
    ELSE IF pattern \in dom.found THEN "found" ELSE "absent"

\* Variant of the loop body without the inner try: the exception of a probe
\* leaves the loop.
ProbeStep_Propagates(outcome) ==
    CASE outcome = "found" -> "break"
      [] outcome = "absent" -> "next"
      [] outcome = "raises" -> "raise"

\* The body of a loop: "try: element = await page.query_selector(pattern);
\* if element: selectors[role] = pattern; break / except: continue".
ProbeStep(outcome) ==
    CASE outcome = "found" -> "break"
      [] outcome = "absent" -> "next"
      [] outcome = "raises" -> "continue"

\* Variant of the loop without the break: a later match overwrites.
RECURSIVE RoleScan_NoBreak(_, _, _)
RoleScan_NoBreak(dom, patterns, i) ==
    IF i > Len(patterns)
    THEN [selector |-> None, raised |-> FALSE]
    ELSE LET later == RoleScan_NoBreak(dom, patterns, i + 1)
         IN IF later.selector # None \/ Probe(dom, patterns[i]) # "found"
            THEN later
            ELSE [selector |-> patterns[i], raised |-> FALSE]

\* "for pattern in patterns: ..." from the i-th pattern on: the selector the
\* loop leaves in selectors[role], and whether an exception left the loop.
RECURSIVE RoleScan(_, _, _)
RoleScan(dom, patterns, i) ==
    IF i > Len(patterns)
    THEN [selector |-> None, raised |-> FALSE]
    ELSE LET step == ProbeStep(Probe(dom, patterns[i]))
         IN IF step = "break" THEN [selector |-> patterns[i], raised |-> FALSE]
            ELSE IF step = "raise" THEN [selector |-> None, raised |-> TRUE]
            ELSE RoleScan(dom, patterns, i + 1)

\* Variant of the detection that gives up at the first role without a match:
\* the roles after it stay None.
detect_login_form_StopsAtMissingRole(dom) ==
    LET u == RoleScan(dom, username_patterns, 1)
        p == RoleScan(dom, password_patterns, 1)
        c == RoleScan(dom, captcha_patterns, 1)
        s == RoleScan(dom, submit_patterns, 1)
        none == [username |-> None, password |-> None, captcha |-> None,
                 submit |-> None]
    IN IF u.selector = None THEN [selectors |-> none, caught |-> u.raised]
       ELSE IF p.selector = None
            THEN [selectors |-> [none EXCEPT !.username = u.selector],
                  caught |-> p.raised]
       ELSE IF c.selector = None
            THEN [selectors |-> [none EXCEPT !.username = u.selector,
                                             !.password = p.selector],
                  caught |-> c.raised]
       ELSE [selectors |-> [username |-> u.selector, password |-> p.selector,
                            captcha |-> c.selector, submit |-> s.selector],
             caught |-> s.raised]

\* detect_login_form(page): the four loops in order; "except Exception as e:
\* ... return selectors" returns what was assigned before the exception.
detect_login_form(dom) ==
    LET u == RoleScan(dom, username_patterns, 1)
        p == RoleScan(dom, password_patterns, 1)
        c == RoleScan(dom, captcha_patterns, 1)
        s == RoleScan(dom, submit_patterns, 1)
        none == [username |-> None, password |-> None, captcha |-> None,
                 submit |-> None]
    IN IF u.raised THEN [selectors |-> none, caught |-> TRUE]
       ELSE IF p.raised
            THEN [selectors |-> [none EXCEPT !.username = u.selector], caught |-> TRUE]
       ELSE IF c.raised
            THEN [selectors |-> [none EXCEPT !.username = u.selector,
                                             !.password = p.selector],
                  caught |-> TRUE]
       ELSE IF s.raised
            THEN [selectors |-> [none EXCEPT !.username = u.selector,
                                             !.password = p.selector,
                                             !.captcha = c.selector],
                  caught |-> TRUE]
       ELSE [selectors |-> [username |-> u.selector, password |-> p.selector,
                            captcha |-> c.selector, submit |-> s.selector],
             caught |-> FALSE]

\* Every pattern of the four lists.
AllPatterns ==
    UNION { { RolePatterns(role)[i] : i \in DOMAIN RolePatterns(role) } : role \in Roles }

\* The subsets of S of at most k elements.
RECURSIVE SubsetsUpTo(_, _)
SubsetsUpTo(S, k) ==
    IF k = 0 THEN { {} }
    ELSE LET smaller == SubsetsUpTo(S, k - 1)
         IN smaller \cup { T \cup {x} : T \in smaller, x \in S }

\* Variant of a call that takes the elements it found off the page.
DetectLoginForm_TakesElements ==
    /\ det.pc \in {"called", "returned"}
    /\ det.calls < MaxCalls
    /\ LET r == detect_login_form(det.dom)
       IN det' = [det EXCEPT !.pc = "returned",
                             !.selectors = r.selectors,
                             !.caught = r.caught,
                             !.first = IF det.calls = 0 THEN r.selectors ELSE @,
                             !.calls = @ + 1,
                             !.dom.found = @ \ {r.selectors[role] : role \in Roles}]
    /\ UNCHANGED <<wk, att, queue, gui, cancel_at, stopping, cls, cred, shot, summ, mrg>>

\* A call of detect_login_form on a page snapshot returns; the page is only
\* read.  The call can be made again on the same snapshot; first keeps the
\* selectors the first call returned.
DetectLoginForm ==
    /\ det.pc \in {"called", "returned"}
    /\ det.calls < MaxCalls
    /\ LET r == detect_login_form(det.dom)
       IN det' = [det EXCEPT !.pc = "returned",
                             !.selectors = r.selectors,
                             !.caught = r.caught,
                             !.first = IF det.calls = 0 THEN r.selectors ELSE @,
                             !.calls = @ + 1]
    /\ UNCHANGED <<wk, att, queue, gui, cancel_at, stopping, cls, cred, shot, summ, mrg>>

\* The calls of detect_login_form, one per page snapshot: at most MaxPresent
\* patterns match or raise, or every probe raises (the page is gone).  No run
\* is started.
DetectorInit ==
    /\ wk = [w \in Workers |-> NoWorker]
    /\ att = [w \in Workers |-> NoAttempt]
    /\ queue = <<>>
    /\ gui = [start_enabled |-> FALSE, stop_enabled |-> FALSE,
              results |-> <<>>, worker |-> 0]
    /\ cancel_at = NotCancelled
    /\ stopping = 0
    /\ cls = NoCall
    /\ cred = NoCredential
    /\ shot = NoScreenshot
    /\ summ = NoSummary
    /\ mrg = NoMerge
    /\ \E T \in SubsetsUpTo(AllPatterns, MaxPresent) :
          \/ \E F \in SUBSET T :
                det = [NoDetection EXCEPT !.pc = "called", !.dom = DomSnapshot(F, T \ F)]
          \/ det = [NoDetection EXCEPT !.pc = "called", !.dom = DomSnapshot(T, AllPatterns)]

DetectorNext == DetectLoginForm

DetectorSpec == DetectorInit /\ [][DetectorNext]_vars

-----------------------------------------------------------------------------
(* password_loader.py: Credential                                          *)

\* The characters str.strip() removes, and the characters of the strings
\* followed.
Whitespace == {" ", "\t"}

Chars == Whitespace \cup {"a"}

\* str.lstrip() and str.rstrip()
RECURSIVE lstrip(_)
lstrip(str) ==
    IF str # <<>> /\ Head(str) \in Whitespace THEN lstrip(Tail(str)) ELSE str

RECURSIVE rstrip(_)
rstrip(str) ==
    IF str # <<>> /\ str[Len(str)] \in Whitespace
    THEN rstrip(SubSeq(str, 1, Len(str) - 1))
    ELSE str

\* Variant of strip that removes leading whitespace only.
strip_LeadingOnly(str) == lstrip(str)

\* str.strip()
strip(str) == rstrip(lstrip(str))

\* "x.strip() if x else """: None and the empty string are both false.
StrippedOrEmpty(x) == IF x # NoString /\ x # <<>> THEN strip(x) ELSE <<>>

\* Credential.__init__(username, password, note)
Credential(username, password, note) ==
    [username |-> StrippedOrEmpty(username), password |-> StrippedOrEmpty(password),
     note |-> StrippedOrEmpty(note)]

\* Credential.is_valid(): bool(self.username and self.password)
is_valid(self) == self.username # <<>> /\ self.password # <<>>

\* The strings of at most n characters.
Strings(n) == UNION { [1..k -> Chars] : k \in 0..n }

\* The arguments a Credential is constructed with: each None or a string of at
\* most MaxLen characters, MaxChars characters together at most.
CredentialArgs ==
    LET values == Strings(MaxLen) \cup {NoString}
    IN UNION { UNION { { [username |-> u, password |-> p, note |-> n] :
                           n \in { v \in values : Len(u) + Len(p) + Len(v) <= MaxChars } } :
                       p \in { v \in values : Len(u) + Len(v) <= MaxChars } } :
               u \in values }

\* credential = Credential(username, password, note)
NewCredential ==
    /\ cred.pc = "args"
    /\ cred' = [cred EXCEPT !.pc = "constructed",
                            !.obj = Credential(cred.args.username, cred.args.password,
                                               cred.args.note)]
    /\ UNCHANGED <<wk, att, queue, gui, cancel_at, stopping, cls, det, shot, summ, mrg>>

\* credential.is_valid()
IsValid ==
    /\ cred.pc = "constructed"
    /\ cred' = [cred EXCEPT !.pc = "validated", !.valid = is_valid(cred.obj)]
    /\ UNCHANGED <<wk, att, queue, gui, cancel_at, stopping, cls, det, shot, summ, mrg>>

\* The Credentials, one per triple of arguments; no run is started.
CredentialInit ==
    /\ wk = [w \in Workers |-> NoWorker]
    /\ att = [w \in Workers |-> NoAttempt]
    /\ queue = <<>>
    /\ gui = [start_enabled |-> FALSE, stop_enabled |-> FALSE,
              results |-> <<>>, worker |-> 0]
    /\ cancel_at = NotCancelled
    /\ stopping = 0
    /\ cls = NoCall
    /\ det = NoDetection
    /\ shot = NoScreenshot
    /\ summ = NoSummary
    /\ mrg = NoMerge
    /\ cred \in { [NoCredential EXCEPT !.pc = "args", !.args = a] : a \in CredentialArgs }

CredentialNext == NewCredential \/ IsValid

CredentialSpec == CredentialInit /\ [][CredentialNext]_vars

-----------------------------------------------------------------------------
(* BrowserAutomation._save_screenshot                                      *)

\* The characters of the usernames followed; a character outside ASCII is
\* written by its code point.  str.isalnum() is true of letters and digits of
\* any script.
UsernameChars == {"a", "7", "U+00E9", "-", "_", "@", "."}

isalnum(c) == c \in {"a", "7", "U+00E9"}

\* Variant of the filter that drops the hyphen too.
IsKept_NoHyphen(c) == isalnum(c) \/ c = "_"

\* c.isalnum() or c in "-_"
IsKept(c) == isalnum(c) \/ c \in {"-", "_"}

\* "".join(c for c in username if c.isalnum() or c in "-_")
safe_username(username) == SelectSeq(username, IsKept)

\* The decimal digits of a natural number, as an f-string writes an int.
RECURSIVE Decimal(_)
Decimal(n) ==
    LET digit == <<"0", "1", "2", "3", "4", "5", "6", "7", "8", "9">>[(n % 10) + 1]
    IN IF n < 10 THEN <<digit>> ELSE Decimal(n \div 10) \o <<digit>>

\* f"{safe_username}_{timestamp}_{suffix}.png"; the suffix and the extension
\* are one word each.
Filename(username, timestamp, suffix) ==
    safe_username(username) \o <<"_">> \o Decimal(timestamp) \o <<"_">> \o suffix
        \o <<".png">>

\* The values of int(time.time()) followed and the suffixes attempt_login
\* passes.
Timestamps == {0, 9, 10, 1700000000}

Suffixes == { <<"after_submit">>, <<"captcha_failed">>, <<"timeout">>, <<"error">> }

\* _save_screenshot(page, username, suffix): the file name is built, the
\* screenshot is written to screenshot_dir / filename and the path returned;
\* when page.screenshot raises, the empty string is returned.
SaveScreenshotFile ==
    /\ shot.pc = "called"
    /\ \E saved \in BOOLEAN :
        LET filename == Filename(shot.username, shot.timestamp, shot.suffix)
        IN shot' = [shot EXCEPT !.pc = "returned",
                                !.filename = filename,
                                !.path = IF saved
                                         THEN <<"screenshot_dir", "/">> \o filename
                                         ELSE <<>>]
    /\ UNCHANGED <<wk, att, queue, gui, cancel_at, stopping, cls, det, cred, summ, mrg>>

\* The calls of _save_screenshot, one per username of at most MaxLen
\* characters, timestamp and suffix; no run is started.
ScreenshotInit ==
    /\ wk = [w \in Workers |-> NoWorker]
    /\ att = [w \in Workers |-> NoAttempt]
    /\ queue = <<>>
    /\ gui = [start_enabled |-> FALSE, stop_enabled |-> FALSE,
              results |-> <<>>, worker |-> 0]
    /\ cancel_at = NotCancelled
    /\ stopping = 0
    /\ cls = NoCall
    /\ det = NoDetection
    /\ cred = NoCredential
    /\ summ = NoSummary
    /\ mrg = NoMerge
    /\ \E k \in 0..MaxLen : \E u \in [1..k -> UsernameChars] :
       \E t \in Timestamps : \E x \in Suffixes :
          shot = [NoScreenshot EXCEPT !.pc = "called", !.username = u,
                                      !.timestamp = t, !.suffix = x]

ScreenshotNext == SaveScreenshotFile

ScreenshotSpec == ScreenshotInit /\ [][ScreenshotNext]_vars

-----------------------------------------------------------------------------
(* The summary of batch_login and the statistics of the main window        *)

\* The summary batch_login logs after its loop: total is len(credentials),
\* one result was appended per credential, and the error count is the number
\* of results whose status is ERROR, TIMEOUT or ELEMENT_NOT_FOUND.
batch_summary(rs) ==
    [total |-> Len(rs),
     success |-> CountStatus(rs, {"SUCCESS"}),
     failed |-> CountStatus(rs, {"FAILED"}),
     errors |-> CountStatus(rs, {"ERROR", "TIMEOUT", "ELEMENT_NOT_FOUND"})]

\* The end of batch_login: the summary of the collected results is logged.
LogSummary ==
    /\ summ.pc = "collected"
    /\ summ' = [summ EXCEPT !.pc = "summarised",
                            !.summary = batch_summary(summ.results)]
    /\ UNCHANGED <<wk, att, queue, gui, cancel_at, stopping, cls, det, cred, shot, mrg>>

\* add_result for the next result of the run: the result is appended to the
\* results of the window and the statistics are recomputed from them.
ShowResult ==
    /\ summ.pc # "none"
    /\ Len(summ.shown) < Len(summ.results)
    /\ LET shown == Append(summ.shown, summ.results[Len(summ.shown) + 1])
       IN summ' = [summ EXCEPT !.shown = shown,
                               !.statistics = update_statistics(shown)]
    /\ UNCHANGED <<wk, att, queue, gui, cancel_at, stopping, cls, det, cred, shot, mrg>>

\* The result sequences of a batch of at most NumCreds + 1 credentials, one
\* result per credential with any status; no run is started.
SummaryInit ==
    /\ wk = [w \in Workers |-> NoWorker]
    /\ att = [w \in Workers |-> NoAttempt]
    /\ queue = <<>>
    /\ gui = [start_enabled |-> FALSE, stop_enabled |-> FALSE,
              results |-> <<>>, worker |-> 0]
    /\ cancel_at = NotCancelled
    /\ stopping = 0
    /\ cls = NoCall
    /\ det = NoDetection
    /\ cred = NoCredential
    /\ shot = NoScreenshot
    /\ mrg = NoMerge
    /\ \E n \in 0..(NumCreds + 1) : \E st \in [1..n -> LoginStatus] :
          summ = [NoSummary EXCEPT
                     !.pc = "collected",
                     !.results = [i \in 1..n |-> [credential |-> i, status |-> st[i]]]]

SummaryNext == LogSummary \/ ShowResult

SummarySpec == SummaryInit /\ [][SummaryNext]_vars

-----------------------------------------------------------------------------
(* BrowserAutomation.attempt_login                                         *)

Logged(a, call) == [a EXCEPT !.log = Append(@, call)]

\* A step that catches the exceptions of the calls it makes: when one of them
\* did not return (outcome is not "ok"), the exception is logged and dropped.
Swallowed(a, step, outcome) ==
    [a EXCEPT !.caught = IF outcome = "ok" THEN NothingCaught
                         ELSE [step |-> step, exc |-> outcome]]

\* The number of times call was made in the attempt with locals a.
Calls(a, call) == Cardinality({i \in 1..Len(a.log) : a.log[i] = call})

\* Variant of a driver call whose exceptions other than a timeout are dropped:
\* the attempt goes on with the next step.
DriverCall_ErrorDropped(w, call, next) ==
    \E o \in Outcomes :
        /\ att' = [att EXCEPT ![w] =
                     [Logged(@, call) EXCEPT !.exc = IF o = "ok" THEN "none" ELSE o,
                                             !.failed = IF o = "ok" THEN None ELSE call,
                                             !.caught = NothingCaught]]
        /\ wk' = [wk EXCEPT ![w].pc = IF o = "timeout" THEN "handler" ELSE next]

\* One awaited call of the browser driver inside the try block: it returns
\* and the attempt goes on at pc next, or it raises and control passes to the
\* matching except clause.
DriverCall(w, call, next) ==
    \E o \in Outcomes :
        /\ att' = [att EXCEPT ![w] =
                     [Logged(@, call) EXCEPT !.exc = IF o = "ok" THEN "none" ELSE o,
                                             !.failed = IF o = "ok" THEN None ELSE call,
                                             !.caught = NothingCaught]]
        /\ wk' = [wk EXCEPT ![w].pc = IF o = "ok" THEN next ELSE "handler"]

\* _save_screenshot: the path of the file written, or "" when taking or
\* writing the screenshot raised; the exception is logged and not raised.
SaveScreenshot(suffix, saved) == IF saved THEN suffix ELSE ""

\* page = await self.context.new_page(); page.set_default_timeout(...)
NewPage(w) ==
    /\ wk[w].pc = "new_page"
    /\ \E o \in Outcomes :
        /\ att' = [att EXCEPT ![w] =
                     [Logged(@, "new_page") EXCEPT
                        !.page = IF o = "ok" THEN "open" ELSE "none",
                        !.exc = IF o = "ok" THEN "none" ELSE o,
                        !.failed = IF o = "ok" THEN None ELSE "new_page"]]
        /\ wk' = [wk EXCEPT ![w].pc = IF o = "ok" THEN "goto" ELSE "handler",
                             ![w].pages = IF o = "ok" THEN @ + 1 ELSE @]
    /\ UNCHANGED <<queue, gui, cancel_at, stopping, cls, det, cred, shot, summ, mrg>>

\* await page.goto(url, wait_until="domcontentloaded")
Goto(w) ==
    /\ wk[w].pc = "goto"
    /\ DriverCall(w, "goto", "wait_idle")
    /\ UNCHANGED <<queue, gui, cancel_at, stopping, cls, det, cred, shot, summ, mrg>>

\* await page.wait_for_load_state("networkidle", timeout=self.timeout)
WaitIdle(w) ==
    /\ wk[w].pc = "wait_idle"
    /\ DriverCall(w, "wait_for_load_state", "detect")
    /\ UNCHANGED <<queue, gui, cancel_at, stopping, cls, det, cred, shot, summ, mrg>>

\* Variant of the test with which detection runs in every attempt.
NeedsDetection_Always(a) == TRUE

\* "if not username_selector or not password_selector": detection is needed.
NeedsDetection(a) == a.username_selector = None \/ a.password_selector = None

\* Variant of the merge in which a detected selector replaces a supplied one.
MergeDetected_Overwrites(a, d) ==
    [a EXCEPT !.username_selector = d.username,
              !.password_selector = d.password,
              !.captcha_selector = IF @ = None THEN d.captcha ELSE @,
              !.submit_selector = IF @ = None THEN d.submit ELSE @]

\* The four "if not x_selector: x_selector = detected[x]" assignments.
MergeDetected(a, d) ==
    [a EXCEPT !.username_selector = IF @ = None THEN d.username ELSE @,
              !.password_selector = IF @ = None THEN d.password ELSE @,
              !.captcha_selector = IF @ = None THEN d.captcha ELSE @,
              !.submit_selector = IF @ = None THEN d.submit ELSE @]

\* "Auto-detect form elements if not provided" and "Validate required
\* fields": detect_login_form swallows the exceptions of its probes and
\* returns a selector map d; with the username or the password selector still
\* missing the attempt returns ELEMENT_NOT_FOUND.
DetectAndValidate(w) ==
    /\ wk[w].pc = "detect"
    /\ \E d \in Detections, probe \in Outcomes :
        LET a == IF NeedsDetection(att[w])
                 THEN Swallowed(MergeDetected(Logged(att[w], "detect_login_form"), d),
                                "detect_login_form", probe)
                 ELSE att[w]
        IN IF a.username_selector = None \/ a.password_selector = None
           THEN /\ att' = [att EXCEPT ![w] =
                             [a EXCEPT !.ret = LoginResult("ELEMENT_NOT_FOUND",
                                  "Username or password field not found", None)]]
                /\ wk' = [wk EXCEPT ![w].pc = "finally"]
           ELSE /\ att' = [att EXCEPT ![w] = a]
                /\ wk' = [wk EXCEPT ![w].pc = "fill_username"]
    /\ UNCHANGED <<queue, gui, cancel_at, stopping, cls, det, cred, shot, summ, mrg>>

\* await page.fill(username_selector, ...); await page.wait_for_timeout(500)
FillUsername(w) ==
    /\ wk[w].pc = "fill_username"
    /\ DriverCall(w, "fill_username", "fill_password")
    /\ UNCHANGED <<queue, gui, cancel_at, stopping, cls, det, cred, shot, summ, mrg>>

\* await page.fill(password_selector, ...); await page.wait_for_timeout(500)
FillPassword(w) ==
    /\ wk[w].pc = "fill_password"
    /\ DriverCall(w, "fill_password", "captcha")
    /\ UNCHANGED <<queue, gui, cancel_at, stopping, cls, det, cred, shot, summ, mrg>>

\* What solve_captcha can return and the calls it makes: get_captcha_image
\* finds no image (capture "ok") or a probe or the capture of the image
\* raises (None, the recogniser is not called), or the
\* recogniser is called once on the image and returns text, "" or None, or
\* raises (recognizer "error"): solve_from_bytes catches the exception and
\* returns None.
CaptchaSolutions ==
    { [text |-> None, calls |-> <<"solve_captcha">>, capture |-> o, recognizer |-> "ok"] :
        o \in Outcomes } \cup
    { [text |-> t, calls |-> <<"solve_captcha", "solve_from_bytes">>, capture |-> "ok",
       recognizer |-> "ok"] : t \in {"text", "", None} } \cup
    { [text |-> None, calls |-> <<"solve_captcha", "solve_from_bytes">>, capture |-> "ok",
       recognizer |-> "error"] }

\* "if captcha_text": a non-empty text.
Truthy(text) == text # None /\ text # ""

\* Variant of the captcha step in which an exception of the recogniser leaves
\* solve_captcha.
HandleCaptcha_RecognizerRaises(w) ==
    /\ wk[w].pc = "captcha"
    /\ IF att[w].captcha_selector = None
       THEN /\ wk' = [wk EXCEPT ![w].pc = "submit"]
            /\ UNCHANGED att
       ELSE \E c \in CaptchaSolutions, saved \in BOOLEAN :
              LET a == [att[w] EXCEPT !.log = @ \o c.calls, !.captcha_text = c.text]
              IN IF c.recognizer = "error"
                 THEN /\ att' = [att EXCEPT ![w] =
                                   [a EXCEPT !.exc = "error", !.failed = "solve_captcha"]]
                      /\ wk' = [wk EXCEPT ![w].pc = "handler"]
                 ELSE IF Truthy(c.text)
                 THEN /\ att' = [att EXCEPT ![w] = a]
                      /\ wk' = [wk EXCEPT ![w].pc = "fill_captcha"]
                 ELSE /\ att' = [att EXCEPT ![w] =
                            [Logged(a, "screenshot_captcha_failed") EXCEPT
                               !.screenshot_path = SaveScreenshot("captcha_failed", saved),
                               !.ret = LoginResult("CAPTCHA_REQUIRED",
                                          "Failed to solve captcha",
                                          SaveScreenshot("captcha_failed", saved))]]
                      /\ wk' = [wk EXCEPT ![w].pc = "finally"]
    /\ UNCHANGED <<queue, gui, cancel_at, stopping, cls, det, cred, shot, summ, mrg>>

\* "Handle captcha if present": with a captcha selector the captcha is solved;
\* without a text the attempt takes the captcha_failed screenshot and returns
\* CAPTCHA_REQUIRED.
HandleCaptcha(w) ==
    /\ wk[w].pc = "captcha"
    /\ IF att[w].captcha_selector = None
       THEN /\ wk' = [wk EXCEPT ![w].pc = "submit"]
            /\ UNCHANGED att
       ELSE \E c \in CaptchaSolutions, saved \in BOOLEAN :
              LET a == Swallowed([att[w] EXCEPT !.log = @ \o c.calls,
                                                !.captcha_text = c.text],
                                 IF c.capture # "ok" THEN "get_captcha_image"
                                 ELSE "solve_from_bytes",
                                 IF c.capture # "ok" THEN c.capture ELSE c.recognizer)
              IN IF Truthy(c.text)
                 THEN /\ att' = [att EXCEPT ![w] = a]
                      /\ wk' = [wk EXCEPT ![w].pc = "fill_captcha"]
                 ELSE /\ att' = [att EXCEPT ![w] =
                            [Logged(a, "screenshot_captcha_failed") EXCEPT
                               !.screenshot_path = SaveScreenshot("captcha_failed", saved),
                               !.ret = LoginResult("CAPTCHA_REQUIRED",
                                          "Failed to solve captcha",
                                          SaveScreenshot("captcha_failed", saved))]]
                      /\ wk' = [wk EXCEPT ![w].pc = "finally"]
    /\ UNCHANGED <<queue, gui, cancel_at, stopping, cls, det, cred, shot, summ, mrg>>

\* await page.fill(captcha_selector, captcha_text); await page.wait_for_timeout(500)
FillCaptcha(w) ==
    /\ wk[w].pc = "fill_captcha"
    /\ DriverCall(w, "fill_captcha", "submit")
    /\ UNCHANGED <<queue, gui, cancel_at, stopping, cls, det, cred, shot, summ, mrg>>

\* Variant of "Submit form" that never uses the submit selector.
SubmitCall_AlwaysPress(a) == "press"

\* "Submit form": a click on the submit selector, or Enter in the password field.
SubmitCall(a) == IF a.submit_selector # None THEN "click" ELSE "press"

Submit(w) ==
    /\ wk[w].pc = "submit"
    /\ DriverCall(w, SubmitCall(att[w]), "settle")
    /\ UNCHANGED <<queue, gui, cancel_at, stopping, cls, det, cred, shot, summ, mrg>>

\* Variant of the attempt without the wait after submission.
Settle_NoWait(w) ==
    /\ wk[w].pc = "settle"
    /\ wk' = [wk EXCEPT ![w].pc = "screenshot"]
    /\ UNCHANGED <<att, queue, gui, cancel_at, stopping, cls, det, cred, shot, summ, mrg>>

\* await page.wait_for_timeout(wait_after_submit)
Settle(w) ==
    /\ wk[w].pc = "settle"
    /\ DriverCall(w, "wait_after_submit", "screenshot")
    /\ UNCHANGED <<queue, gui, cancel_at, stopping, cls, det, cred, shot, summ, mrg>>

\* Variant of the after_submit screenshot whose failure is raised into the
\* except clause.
Screenshot_FailurePropagates(w) ==
    /\ wk[w].pc = "screenshot"
    /\ \E saved \in BOOLEAN :
        /\ att' = [att EXCEPT ![w] =
                     [Logged(@, "screenshot_after_submit") EXCEPT
                        !.screenshot_path = IF saved THEN "after_submit" ELSE @,
                        !.exc = IF saved THEN "none" ELSE "error",
                        !.failed = IF saved THEN None ELSE "screenshot_after_submit"]]
        /\ wk' = [wk EXCEPT ![w].pc = IF saved THEN "verify" ELSE "handler"]
    /\ UNCHANGED <<queue, gui, cancel_at, stopping, cls, det, cred, shot, summ, mrg>>

\* screenshot_path = await self._save_screenshot(page, ..., "after_submit")
Screenshot(w) ==
    /\ wk[w].pc = "screenshot"
    /\ \E saved \in BOOLEAN :
        att' = [att EXCEPT ![w] =
                  [Logged(@, "screenshot_after_submit") EXCEPT
                     !.screenshot_path = SaveScreenshot("after_submit", saved)]]
    /\ wk' = [wk EXCEPT ![w].pc = "verify"]
    /\ UNCHANGED <<queue, gui, cancel_at, stopping, cls, det, cred, shot, summ, mrg>>

\* Variant of the return after classification that reports every submitted
\* attempt as a success.
ClassifiedResult_AlwaysSuccess(is_success, screenshot_path) ==
    LoginResult("SUCCESS", "Login successful", screenshot_path)

\* "if is_success: ... status = LoginStatus.SUCCESS else: ... status =
\* LoginStatus.FAILED; return LoginResult(status, credential, url, msg,
\* screenshot_path)"
ClassifiedResult(is_success, screenshot_path) ==
    IF is_success
    THEN LoginResult("SUCCESS", "Login successful", screenshot_path)
    ELSE LoginResult("FAILED", "Login failed - incorrect credentials or other error",
                     screenshot_path)

\* is_success = await self._verify_login_success(...), which returns a boolean
\* and catches the exceptions of its probes; then the SUCCESS or FAILED return.
Verify(w) ==
    /\ wk[w].pc = "verify"
    /\ \E v \in ClassifierReturns :
        att' = [att EXCEPT ![w] =
                  [Swallowed(Logged(@, "verify_login_success"), "verify_login_success",
                             IF v.exc = "none" THEN "ok" ELSE v.exc)
                   EXCEPT !.classified = [is_success |-> v.is_success,
                                          by_url_change |-> v.by_url_change],
                          !.ret = ClassifiedResult(v.is_success, att[w].screenshot_path)]]
    /\ wk' = [wk EXCEPT ![w].pc = "finally"]
    /\ UNCHANGED <<queue, gui, cancel_at, stopping, cls, det, cred, shot, summ, mrg>>

\* Variant of the except clauses: one clause for every exception.
HandlerStatus_AlwaysError(exc) == "ERROR"

\* The status of the except clause that matches exc: "except PlaywrightTimeout"
\* comes first, "except Exception" takes the rest.
HandlerStatus(exc) == IF exc = "timeout" THEN "TIMEOUT" ELSE "ERROR"

\* msg = f"Timeout: {str(e)}" and msg = f"Error: {str(e)}": the prefix and
\* the text of the exception, e.
HandlerMessage(exc) == IF exc = "timeout" THEN "Timeout: e" ELSE "Error: e"

\* Variant of the except clauses that tags every screenshot "error".
HandlerSuffix_AlwaysError(exc) == "error"

\* The suffix of the screenshot the except clause takes.
HandlerSuffix(exc) == IF exc = "timeout" THEN "timeout" ELSE "error"

\* Variant of the except clauses that take no screenshot.
HandlerTakesScreenshot_Never(a) == FALSE

\* "if page:" of the except clauses.
HandlerTakesScreenshot(a) == a.page # "none"

\* "except PlaywrightTimeout" and "except Exception": with a page a screenshot
\* is taken, then TIMEOUT or ERROR is returned.
Handler(w) ==
    /\ wk[w].pc = "handler"
    /\ LET status == HandlerStatus(att[w].exc)
           message == HandlerMessage(att[w].exc)
           suffix == HandlerSuffix(att[w].exc)
       IN IF HandlerTakesScreenshot(att[w])
          THEN \E saved \in BOOLEAN :
                 att' = [att EXCEPT ![w] =
                           [Logged(@, "screenshot_" \o suffix) EXCEPT
                              !.screenshot_path = SaveScreenshot(suffix, saved),
                              !.ret = LoginResult(status, message,
                                                  SaveScreenshot(suffix, saved))]]
          ELSE att' = [att EXCEPT ![w].ret =
                         LoginResult(status, message, att[w].screenshot_path)]
    /\ wk' = [wk EXCEPT ![w].pc = "finally"]
    /\ UNCHANGED <<queue, gui, cancel_at, stopping, cls, det, cred, shot, summ, mrg>>

\* Variant of the finally clause: the page is closed only when no return statement was executed
\* before the try block's normal end.
PageToClose_NotOnEarlyReturn(a) ==
    a.page # "none" /\ a.ret.status \notin {"ELEMENT_NOT_FOUND", "CAPTCHA_REQUIRED"}

\* "finally: if page:"
PageToClose(a) == a.page # "none"

\* "finally: if page: await page.close()".  The return statement has been
\* executed; when close returns, its LoginResult is returned to the loop; when
\* close raises, the exception replaces the return value and leaves
\* attempt_login, and the page may still be open.
Finally(w) ==
    /\ wk[w].pc = "finally"
    /\ IF PageToClose(att[w])
       THEN \E closed \in BOOLEAN :
              /\ att' = [att EXCEPT ![w] =
                           [Logged(@, "close") EXCEPT
                              !.page = IF closed THEN "closed" ELSE "open",
                              !.caught = NothingCaught]]
              /\ wk' = [wk EXCEPT ![w].pc = IF closed THEN "append" ELSE "emit_error",
                                   ![w].pages = IF closed THEN @ - 1 ELSE @]
       ELSE /\ wk' = [wk EXCEPT ![w].pc = "append"]
            /\ att' = [att EXCEPT ![w].caught = NothingCaught]
    /\ UNCHANGED <<queue, gui, cancel_at, stopping, cls, det, cred, shot, summ, mrg>>

-----------------------------------------------------------------------------

Next ==
    \/ StartVerification
    \/ StopVerification
    \/ UpdateProgress
    \/ AddResult
    \/ VerificationFinished
    \/ HandleError
    \/ StopBrowser
    \/ \E w \in Workers :
        \/ Construct(w)
        \/ StartBrowser(w)
        \/ LoopHead(w)
        \/ NewPage(w)
        \/ Goto(w)
        \/ WaitIdle(w)
        \/ DetectAndValidate(w)
        \/ FillUsername(w)
        \/ FillPassword(w)
        \/ HandleCaptcha(w)
        \/ FillCaptcha(w)
        \/ Submit(w)
        \/ Settle(w)
        \/ Screenshot(w)
        \/ Verify(w)
        \/ Handler(w)
        \/ Finally(w)
        \/ AppendResult(w)
        \/ Sleep(w)
        \/ EmitFinished(w)
        \/ EmitError(w)

Spec == Init /\ [][Next]_vars

\* A step of the thread of worker w: the next statement of _async_run or of
\* the attempt_login call it is in.
WorkerStep(w) ==
    \/ Construct(w)
    \/ StartBrowser(w)
    \/ LoopHead(w)
    \/ NewPage(w)
    \/ Goto(w)
    \/ WaitIdle(w)
    \/ DetectAndValidate(w)
    \/ FillUsername(w)
    \/ FillPassword(w)
    \/ HandleCaptcha(w)
    \/ FillCaptcha(w)
    \/ Submit(w)
    \/ Settle(w)
    \/ Screenshot(w)
    \/ Verify(w)
    \/ Handler(w)
    \/ Finally(w)
    \/ AppendResult(w)
    \/ Sleep(w)
    \/ EmitFinished(w)
    \/ EmitError(w)

\* The program with worker threads that keep running: every awaited call of
\* the browser driver, the recogniser and asyncio.sleep returns or raises, so
\* a thread that can take a step takes one.  Nothing is assumed of the user
\* or of the window's event loop.
FairSpec == Init /\ [][Next]_vars /\ \A w \in Workers : WF_vars(WorkerStep(w))

-----------------------------------------------------------------------------
(* attempt_login: the selectors the attempt works with                     *)

\* The selector arguments of attempt_login: any of the four roles supplied.
SelectorArguments == { Selectors(S, "explicit") : S \in SUBSET Roles }

\* What detect_login_form can return: any of the four roles detected.
DetectedSelectors == { Selectors(S, "detected") : S \in SUBSET Roles }

\* The four selector locals of attempt_login.
SelectorLocals(s) ==
    [username_selector |-> s.username, password_selector |-> s.password,
     captcha_selector |-> s.captcha, submit_selector |-> s.submit]

\* The "Auto-detect form elements if not provided" block on the selector
\* arguments mrg.explicit and a page for which detect_login_form returns
\* mrg.detected: detection is called when the test says so and its result
\* merged into the locals.
ResolveSelectors ==
    /\ mrg.pc = "called"
    /\ LET a == SelectorLocals(mrg.explicit)
           ran == NeedsDetection(a)
           b == IF ran THEN MergeDetected(a, mrg.detected) ELSE a
       IN mrg' = [mrg EXCEPT !.pc = "resolved",
                             !.ran = ran,
                             !.selectors = [username |-> b.username_selector,
                                            password |-> b.password_selector,
                                            captcha |-> b.captcha_selector,
                                            submit |-> b.submit_selector]]
    /\ UNCHANGED <<wk, att, queue, gui, cancel_at, stopping, cls, det, cred, shot, summ>>

\* Every combination of supplied selectors and of detected selectors; no run
\* is started.
MergeInit ==
    /\ wk = [w \in Workers |-> NoWorker]
    /\ att = [w \in Workers |-> NoAttempt]
    /\ queue = <<>>
    /\ gui = [start_enabled |-> FALSE, stop_enabled |-> FALSE,
              results |-> <<>>, worker |-> 0]
    /\ cancel_at = NotCancelled
    /\ stopping = 0
    /\ cls = NoCall
    /\ det = NoDetection
    /\ cred = NoCredential
    /\ shot = NoScreenshot
    /\ summ = NoSummary
    /\ \E s \in SelectorArguments, d \in DetectedSelectors :
          mrg = [NoMerge EXCEPT !.pc = "called", !.explicit = s, !.detected = d]

MergeNext == ResolveSelectors

MergeSpec == MergeInit /\ [][MergeNext]_vars

-----------------------------------------------------------------------------
(* Properties                                                              *)

Missing(a) == a.username_selector = None \/ a.password_selector = None

\* Worker w is in an attempt whose try block ended in a return statement.
Returned(w) ==
    /\ wk[w].pc \in {"finally", "append", "emit_error"}
    /\ att[w].log # <<>>
    /\ att[w].exc = "none"

\* C1: every attempt_login call returns one LoginResult with one status of
\* LoginStatus, whatever collaborator step failed, and no failure leaves
\* attempt_login: a worker that has entered an attempt never handles an
\* exception in _async_run.
C1_EveryFailureBecomesAResult ==
    \A w \in Workers :
        /\ wk[w].pc = "append" => att[w].ret.status \in LoginStatus
        /\ wk[w].nstarted > 0 => wk[w].pc # "emit_error"

\* C2: the results emitted are at most as many as the credentials, the i-th
\* result carries the i-th credential, and a run whose session started and
\* in which stop was never requested ends with one result per credential.
C2_ResultsInOrderAndComplete ==
    /\ \A w \in Workers :
        /\ Len(wk[w].results) <= wk[w].credentials
        /\ \A i \in 1..Len(wk[w].results) : wk[w].results[i].credential = i
        /\ ( /\ wk[w].pc \in {"emit_finished", "emit_error"}
             /\ wk[w].automation = "started"
             /\ wk[w].is_running )
           => Len(wk[w].results) = wk[w].credentials
    /\ Len(gui.results) <= NumCreds
    /\ \A i \in 1..Len(gui.results) : gui.results[i].credential = i

\* C3: at most one attempt is in flight: among all workers at most one is
\* inside attempt_login, a worker has started at most one attempt more than it
\* has results, and while the start button is enabled (a new run can be
\* started) no attempt is in flight.
C3_OneAttemptInFlight ==
    /\ Cardinality({w \in Workers : InFlight(w)}) <= 1
    /\ \A w \in Workers :
        /\ wk[w].nstarted - Len(wk[w].results) \in {0, 1}
        /\ InFlight(w) => wk[w].nstarted = Len(wk[w].results) + 1
    /\ gui.start_enabled => \A w \in Workers : ~InFlight(w)

\* An attempt of a later run is in flight, after stop was requested, while
\* the thread of an earlier run is still stopping its browser.
C3_Witness ==
    \E w \in Workers :
        InFlight(w) /\ ~wk[w].is_running /\ stopping > 0 /\ ~gui.start_enabled

\* C4: when stop is first requested while attempt k is in flight (k - 1
\* results before it), no later attempt is started, the result of attempt k
\* is emitted and the run ends with exactly k results.
C4_CancelInFlightEndsWithK ==
    cancel_at.phase = "inflight" =>
        LET w == gui.worker
            k == cancel_at.completed + 1
        IN /\ wk[w].nstarted <= k
           /\ wk[w].pc # "emit_error"
           /\ wk[w].pc = "emit_finished" => Len(wk[w].results) = k

\* C5: when stop is first requested after attempt k has returned and before
\* attempt k + 1 is entered, no further attempt is started, the run ends with
\* exactly k results, the finished signal carries k results and, once the end
\* of the run has been handled, the statistics show total = k.
C5_CancelBetweenAttempts ==
    cancel_at.phase = "between" =>
        LET w == gui.worker
            k == cancel_at.completed
        IN /\ wk[w].nstarted <= k
           /\ Len(wk[w].results) <= k
           /\ wk[w].pc = "emit_finished" => Len(wk[w].results) = k
           /\ \A i \in 1..Len(queue) :
                queue[i].signal = "finished" => Len(queue[i].arg) = k
           /\ update_statistics(gui.results).total <= k
           /\ gui.start_enabled => update_statistics(gui.results).total = k

\* Stop was requested after attempt k >= 1 of more credentials, and the run
\* is about to emit finished with k results.
C5_Witness ==
    \E w \in Workers :
        /\ w = gui.worker
        /\ cancel_at.phase = "between"
        /\ cancel_at.completed >= 1
        /\ wk[w].pc = "emit_finished"
        /\ wk[w].credentials > cancel_at.completed
        /\ Len(wk[w].results) = cancel_at.completed

C7_PageClosedOnEveryExit ==
    \A w \in Workers :
        /\ Calls(att[w], "close") <= 1
        /\ wk[w].pc = "append" =>
              /\ att[w].page # "open"
              /\ att[w].page = "closed" <=> Calls(att[w], "new_page") = 1 /\ att[w].failed # "new_page"
              /\ att[w].page = "closed" => Calls(att[w], "close") = 1
        /\ wk[w].pc \in {"append", "loop", "sleep", "new_page", "emit_finished"} =>
              wk[w].pages = 0

\* The ELEMENT_NOT_FOUND return, with its page closed, has reached the loop.
C7_Witness ==
    \E w \in Workers :
        /\ wk[w].pc = "append"
        /\ att[w].ret.status = "ELEMENT_NOT_FOUND"
        /\ att[w].page = "closed"

\* The return statement executed with a required selector missing is the
\* ELEMENT_NOT_FOUND one, and no fill, click or press call was made.
MissingSelectorReturnsElementNotFound ==
    \A w \in Workers :
        (Returned(w) /\ Missing(att[w])) =>
            /\ att[w].ret.status = "ELEMENT_NOT_FOUND"
            /\ \A c \in {"fill_username", "fill_password", "fill_captcha", "click", "press"} :
                 Calls(att[w], c) = 0

\* C8: when the username or the password selector is still missing after the
\* explicit input and detection, the attempt ends with ELEMENT_NOT_FOUND (the
\* ELEMENT_NOT_FOUND return is executed and is what attempt_login ends with)
\* and fill, click and press are never called.
C8_MissingSelectorEndsElementNotFound ==
    /\ MissingSelectorReturnsElementNotFound
    /\ \A w \in Workers : (Returned(w) /\ Missing(att[w])) => wk[w].pc # "emit_error"

\* solve_captcha was called in the attempt of worker w and gave no text.
Unsolved(w) == Calls(att[w], "solve_captcha") > 0 /\ ~Truthy(att[w].captcha_text)

\* The return statement executed after an unsolved captcha is the
\* CAPTCHA_REQUIRED one, after the captcha_failed screenshot; the captcha field
\* was not filled, nothing was submitted, the recogniser was called at most once.
UnsolvedCaptchaReturnsCaptchaRequired ==
    \A w \in Workers :
        Unsolved(w) =>
            /\ att[w].captcha_selector # None
            /\ att[w].ret.status = "CAPTCHA_REQUIRED"
            /\ att[w].ret.message = "Failed to solve captcha"
            /\ Calls(att[w], "screenshot_captcha_failed") = 1
            /\ \A c \in {"fill_captcha", "click", "press"} : Calls(att[w], c) = 0
            /\ Calls(att[w], "solve_from_bytes") <= 1
            /\ Calls(att[w], "solve_captcha") = 1

\* C9: with a captcha selector and no text from solve_captcha the attempt
\* ends with CAPTCHA_REQUIRED after the captcha_failed screenshot, the captcha
\* field is not filled, the form is not submitted and the recogniser was
\* called at most once.
C9_UnsolvedCaptchaEndsCaptchaRequired ==
    /\ UnsolvedCaptchaReturnsCaptchaRequired
    /\ \A w \in Workers : Unsolved(w) => wk[w].pc # "emit_error"

\* goto or the network-idle wait of the attempt of worker w timed out.
NavigationTimedOut(w) ==
    att[w].exc = "timeout" /\ att[w].failed \in {"goto", "wait_for_load_state"}

\* After a navigation timeout the return statement executed is the TIMEOUT
\* one, and no detection, fill, captcha, click or press call was made.
NavigationTimeoutReturnsTimeout ==
    \A w \in Workers :
        NavigationTimedOut(w) =>
            /\ \A c \in {"detect_login_form", "fill_username", "fill_password",
                         "solve_captcha", "fill_captcha", "click", "press"} :
                 Calls(att[w], c) = 0
            /\ wk[w].pc # "handler" => att[w].ret.status = "TIMEOUT"

\* C10: when goto or the network-idle wait times out, the attempt ends with
\* TIMEOUT and makes no detection, fill, captcha, click or press call.
C10_NavigationTimeoutEndsTimeout ==
    /\ NavigationTimeoutReturnsTimeout
    /\ \A w \in Workers : NavigationTimedOut(w) => wk[w].pc # "emit_error"

\* The calls attempt_login awaits directly in its try block.
DirectCalls ==
    {"new_page", "goto", "wait_for_load_state", "fill_username", "fill_password",
     "fill_captcha", "click", "press", "wait_after_submit"}

\* The pc values of an attempt after one of its calls raised into an except
\* clause: the clause, the finally clause, the return to the loop, or the
\* exception of close on its way out.
AfterRaise == {"handler", "finally", "append", "emit_error"}

\* The calls made after the call that raised are the screenshot of the
\* except clause and close, and nothing else.
NoLaterStep(a) ==
    \E i \in 1..Len(a.log) :
        /\ a.log[i] = a.failed
        /\ \A j \in (i + 1)..Len(a.log) :
             a.log[j] \in {"screenshot_timeout", "screenshot_error", "close"}

\* C11 as stated: a timeout at any waiting step of an attempt, also in a
\* detection probe, in the capture of the captcha image and in a
\* classification probe, is followed by the TIMEOUT return and by no other
\* step or return.
C11_AnyWaitTimeoutEndsTimeout ==
    \A w \in Workers :
        (att[w].exc = "timeout" \/ att[w].caught.exc = "timeout") =>
            /\ wk[w].pc \in AfterRaise
            /\ wk[w].pc # "handler" => att[w].ret.status = "TIMEOUT"

\* C11 amended: a timeout of a call awaited directly in the try block is
\* followed by the TIMEOUT return and no other step; a timeout caught inside
\* detection leaves the attempt going (or ELEMENT_NOT_FOUND), one caught in
\* the capture of the captcha image gives CAPTCHA_REQUIRED, one caught in a
\* classification probe gives FAILED; TIMEOUT is returned in no other case.
C11_DirectWaitTimeoutReturnsTimeout ==
    \A w \in Workers :
        /\ att[w].exc = "timeout" =>
              /\ att[w].failed \in DirectCalls
              /\ wk[w].pc \in AfterRaise
              /\ NoLaterStep(att[w])
              /\ wk[w].pc # "handler" => att[w].ret.status = "TIMEOUT"
        /\ att[w].caught.exc = "timeout" =>
              /\ att[w].exc = "none"
              /\ att[w].caught.step = "detect_login_form" =>
                    \/ wk[w].pc = "fill_username" /\ att[w].ret = NoResult
                    \/ wk[w].pc = "finally" /\ att[w].ret.status = "ELEMENT_NOT_FOUND"
              /\ att[w].caught.step = "get_captcha_image" =>
                    wk[w].pc = "finally" /\ att[w].ret.status = "CAPTCHA_REQUIRED"
              /\ att[w].caught.step = "verify_login_success" =>
                    wk[w].pc = "finally" /\ att[w].ret.status = "FAILED"
        /\ att[w].ret.status = "TIMEOUT" => att[w].exc = "timeout"

\* The TIMEOUT result of an attempt whose click on the submit button timed
\* out has reached the loop.
C11_Witness ==
    \E w \in Workers :
        /\ wk[w].pc = "append"
        /\ att[w].failed = "click"
        /\ att[w].exc = "timeout"
        /\ att[w].ret.status = "TIMEOUT"

\* C12 as stated: a failure of any collaborator in an attempt that is not a
\* timeout, with no required selector missing and no unsolved captcha, also
\* one caught inside detection or classification, is followed by the ERROR
\* return, with the message of the exception, and by no other step.
C12_AnyFailureEndsError ==
    \A w \in Workers :
        \/ att[w].exc = "error"
        \/ /\ att[w].caught.exc = "error"
           /\ att[w].caught.step \notin {"get_captcha_image", "solve_from_bytes"}
           /\ att[w].ret.status # "ELEMENT_NOT_FOUND"
        => /\ wk[w].pc \in AfterRaise
           /\ wk[w].pc # "handler" =>
                 att[w].ret.status = "ERROR" /\ att[w].ret.message = "Error: e"

\* C12 amended: an exception other than a timeout of a call awaited directly
\* in the try block is followed by the ERROR return, with the message of the
\* exception, and by no other step than the error screenshot and close; an
\* exception caught inside detection or classification does not give ERROR;
\* ERROR is returned in no other case.
C12_DirectFailureReturnsError ==
    \A w \in Workers :
        /\ att[w].exc = "error" =>
              /\ att[w].failed \in DirectCalls
              /\ wk[w].pc \in AfterRaise
              /\ NoLaterStep(att[w])
              /\ wk[w].pc # "handler" =>
                    att[w].ret.status = "ERROR" /\ att[w].ret.message = "Error: e"
        /\ att[w].caught.exc = "error" =>
              /\ att[w].exc = "none"
              /\ att[w].caught.step = "detect_login_form" =>
                    \/ wk[w].pc = "fill_username" /\ att[w].ret = NoResult
                    \/ wk[w].pc = "finally" /\ att[w].ret.status = "ELEMENT_NOT_FOUND"
              /\ att[w].caught.step = "verify_login_success" =>
                    wk[w].pc = "finally" /\ att[w].ret.status = "FAILED"
        /\ att[w].ret.status = "ERROR" => att[w].exc = "error"

\* The ERROR result of an attempt whose fill of the password field raised has
\* reached the loop.
C12_Witness ==
    \E w \in Workers :
        /\ wk[w].pc = "append"
        /\ att[w].failed = "fill_password"
        /\ att[w].exc = "error"
        /\ att[w].ret.status = "ERROR"
        /\ att[w].ret.message = "Error: e"

\* Call was made in the attempt with locals a.
Made(a, call) == \E i \in 1..Len(a.log) : a.log[i] = call

\* The number of submit actions (click or press) of the attempt with locals a.
SubmitActions(a) == Cardinality({i \in 1..Len(a.log) : a.log[i] \in {"click", "press"}})

\* The attempt of worker w has reached submission: the submit call was made.
ReachedSubmission(w) ==
    \/ wk[w].pc \in {"settle", "screenshot", "verify"}
    \/ att[w].failed \in {"click", "press", "wait_after_submit"}
    \/ att[w].ret.status \in {"SUCCESS", "FAILED"}

\* C13: an attempt makes at most one submit action, none before submission is
\* reached, and exactly one once it is reached: a click if a submit selector
\* resolved, otherwise a press of Enter.
C13_ExactlyOneSubmitAction ==
    \A w \in Workers :
        LET n == SubmitActions(att[w])
        IN /\ n <= 1
           /\ ReachedSubmission(w) =>
                 /\ n = 1
                 /\ Made(att[w], "click") <=> att[w].submit_selector # None
                 /\ Made(att[w], "press") <=> att[w].submit_selector = None
           /\ (~ReachedSubmission(w) /\ att[w].exc = "none" /\ att[w].ret = NoResult) =>
                 n = 0

\* An attempt without a submit selector, submitted by one press of Enter, has
\* returned SUCCESS to the loop.
C13_Witness ==
    \E w \in Workers :
        /\ wk[w].pc = "append"
        /\ att[w].ret.status = "SUCCESS"
        /\ att[w].submit_selector = None
        /\ att[w].log = <<"new_page", "goto", "wait_for_load_state", "fill_username",
                          "fill_password", "press", "wait_after_submit",
                          "screenshot_after_submit", "verify_login_success", "close">>

\* The place of a call in the order of the steps of an attempt.
StepRank(call) ==
    CASE call = "new_page" -> 1
      [] call = "goto" -> 2
      [] call = "wait_for_load_state" -> 3
      [] call = "detect_login_form" -> 4
      [] call = "fill_username" -> 5
      [] call = "fill_password" -> 6
      [] call = "solve_captcha" -> 7
      [] call = "solve_from_bytes" -> 8
      [] call = "fill_captcha" -> 9
      [] call \in {"click", "press"} -> 10
      [] call = "wait_after_submit" -> 11
      [] call = "screenshot_after_submit" -> 12
      [] call = "verify_login_success" -> 13
      [] call \in {"screenshot_captcha_failed", "screenshot_timeout",
                   "screenshot_error"} -> 14
      [] call = "close" -> 15

\* Call first was made, returned, and was made before call then.
ReturnedBefore(a, first, then) ==
    /\ a.failed # first
    /\ \E j \in 1..Len(a.log) :
         a.log[j] = then /\ \E i \in 1..(j - 1) : a.log[i] = first

\* C14: the calls of an attempt are made in the order navigate, detect, fill
\* username, fill password, captcha, submit, settle wait, screenshot, classify,
\* each at most once; the fills come after validation, the password fill
\* after the username fill, the submit after both fills, and the screenshot
\* and the classifier after the settle wait has returned.
C14_StepsInOrder ==
    \A w \in Workers :
        LET a == att[w]
        IN /\ \A i \in 1..(Len(a.log) - 1) : StepRank(a.log[i]) < StepRank(a.log[i + 1])
           /\ Made(a, "detect_login_form") =>
                 ReturnedBefore(a, "wait_for_load_state", "detect_login_form")
           /\ Made(a, "fill_username") =>
                 /\ ~Missing(a)
                 /\ ReturnedBefore(a, "wait_for_load_state", "fill_username")
           /\ Made(a, "fill_password") =>
                 ReturnedBefore(a, "fill_username", "fill_password")
           /\ \A c \in {"click", "press"} :
                 Made(a, c) => /\ ReturnedBefore(a, "fill_username", c)
                               /\ ReturnedBefore(a, "fill_password", c)
           /\ \A c \in {"screenshot_after_submit", "verify_login_success"} :
                 Made(a, c) => ReturnedBefore(a, "wait_after_submit", c)
           /\ Made(a, "verify_login_success") =>
                 ReturnedBefore(a, "screenshot_after_submit", "verify_login_success")

\* An attempt with detection and a solved captcha has run every step and
\* returned to the loop.
C14_Witness ==
    \E w \in Workers :
        /\ wk[w].pc = "append"
        /\ att[w].log = <<"new_page", "goto", "wait_for_load_state", "detect_login_form",
                          "fill_username", "fill_password", "solve_captcha",
                          "solve_from_bytes", "fill_captcha", "click",
                          "wait_after_submit", "screenshot_after_submit",
                          "verify_login_success", "close">>

\* C15: a result is SUCCESS or FAILED only if the form was submitted and the
\* classifier was called in that attempt, SUCCESS exactly when the classifier
\* returned true and FAILED exactly when it returned false; when the URL test
\* of the classifier decided, the result is SUCCESS with message "Login
\* successful" and the path the after_submit screenshot gave.
C15_StatusFollowsClassifier ==
    \A w \in Workers :
        LET a == att[w]
        IN /\ a.ret.status \in {"SUCCESS", "FAILED"} =>
                 /\ SubmitActions(a) = 1
                 /\ a.failed = None
                 /\ Made(a, "verify_login_success")
                 /\ a.ret.status = "SUCCESS" <=> a.classified.is_success
                 /\ a.ret.status = "FAILED" <=> ~a.classified.is_success
           /\ Made(a, "verify_login_success") =>
                 a.ret.status = IF a.classified.is_success THEN "SUCCESS" ELSE "FAILED"
           /\ (Made(a, "verify_login_success") /\ a.classified.by_url_change) =>
                 /\ a.ret.status = "SUCCESS"
                 /\ a.ret.message = "Login successful"
                 /\ Made(a, "screenshot_after_submit")
                 /\ a.ret.screenshot_path = a.screenshot_path
                 /\ a.screenshot_path \in {"after_submit", ""}

\* With explicit username and password selectors and no captcha, the URL test
\* decided and SUCCESS with the after_submit screenshot has reached the loop.
C15_Witness ==
    \E w \in Workers :
        /\ wk[w].pc = "append"
        /\ wk[w].selectors = Selectors({"username", "password"}, "explicit")
        /\ Calls(att[w], "detect_login_form") = 0
        /\ att[w].captcha_selector = None
        /\ att[w].classified.by_url_change
        /\ att[w].ret = LoginResult("SUCCESS", "Login successful", "after_submit")

\* The screenshot calls of the attempt with locals a.
ScreenshotCalls(a) ==
    {i \in 1..Len(a.log) :
        a.log[i] \in {"screenshot_after_submit", "screenshot_captcha_failed",
                      "screenshot_timeout", "screenshot_error"}}

\* The screenshot call of the exit path that returns status.
ScreenshotOfExit(status) ==
    CASE status \in {"SUCCESS", "FAILED"} -> "screenshot_after_submit"
      [] status = "CAPTCHA_REQUIRED" -> "screenshot_captcha_failed"
      [] status = "TIMEOUT" -> "screenshot_timeout"
      [] status = "ERROR" -> "screenshot_error"
      [] OTHER -> "no screenshot"

\* C16: an attempt takes at most one screenshot, and the screenshot an exit
\* path took carries the tag of that path: after_submit for SUCCESS and FAILED,
\* captcha_failed for CAPTCHA_REQUIRED, timeout for TIMEOUT, error for ERROR.
C16_OneScreenshotTaggedByExit ==
    \A w \in Workers :
        LET a == att[w]
            shots == ScreenshotCalls(a)
        IN /\ Cardinality(shots) <= 1
           /\ a.ret # NoResult =>
                 /\ \A i \in shots : a.log[i] = ScreenshotOfExit(a.ret.status)
                 /\ a.ret.screenshot_path # None =>
                       "screenshot_" \o a.ret.screenshot_path \in
                          {ScreenshotOfExit(a.ret.status), "screenshot_"}
                 /\ a.ret.status \in {"SUCCESS", "FAILED", "CAPTCHA_REQUIRED"} =>
                       Cardinality(shots) = 1

\* A TIMEOUT result with its one screenshot, tagged timeout, has reached the loop.
C16_Witness ==
    \E w \in Workers :
        /\ wk[w].pc = "append"
        /\ att[w].ret.status = "TIMEOUT"
        /\ att[w].ret.screenshot_path = "timeout"
        /\ Calls(att[w], "screenshot_timeout") = 1

\* A screenshot was attempted in the attempt with locals a, before any close.
ScreenshotBeforeClose(a) ==
    /\ ScreenshotCalls(a) # {}
    /\ \A i \in ScreenshotCalls(a), j \in 1..Len(a.log) : a.log[j] = "close" => i < j

\* C17 as stated: every attempt that returns ELEMENT_NOT_FOUND,
\* CAPTCHA_REQUIRED, TIMEOUT or ERROR while it has a page attempts a screenshot
\* of the page before the page is closed.
C17_ErrorExitsTakeScreenshot ==
    \A w \in Workers :
        ( /\ att[w].ret.status \in {"ELEMENT_NOT_FOUND", "CAPTCHA_REQUIRED", "TIMEOUT", "ERROR"}
          /\ att[w].page # "none" )
        => ScreenshotBeforeClose(att[w])

\* C17 amended: every attempt that returns CAPTCHA_REQUIRED, TIMEOUT or ERROR
\* while it has a page attempts a screenshot of the page before the page is
\* closed; the ELEMENT_NOT_FOUND return takes no screenshot.
C17_ErrorExitsButNotFoundTakeScreenshot ==
    \A w \in Workers :
        /\ ( /\ att[w].ret.status \in {"CAPTCHA_REQUIRED", "TIMEOUT", "ERROR"}
             /\ att[w].page # "none" )
           => ScreenshotBeforeClose(att[w])
        /\ att[w].ret.status = "ELEMENT_NOT_FOUND" =>
              att[w].page # "none" /\ ScreenshotCalls(att[w]) = {}

\* An ERROR result whose attempt took the error screenshot and then closed
\* its page has reached the loop.
C17_Witness ==
    \E w \in Workers :
        /\ wk[w].pc = "append"
        /\ att[w].ret.status = "ERROR"
        /\ att[w].page = "closed"
        /\ att[w].log = <<"new_page", "goto", "screenshot_error", "close">>

\* C18: a screenshot that fails (path "") is not raised and changes neither
\* the way the attempt goes on nor its status: after the after_submit
\* screenshot the classifier is called and decides SUCCESS or FAILED, after
\* the captcha_failed, timeout and error screenshots the status is
\* CAPTCHA_REQUIRED, TIMEOUT and ERROR, as when the screenshot is saved.
C18_ScreenshotFailureKeepsStatus ==
    \A w \in Workers :
        LET a == att[w]
        IN /\ a.failed \notin {"screenshot_after_submit", "screenshot_captcha_failed",
                               "screenshot_timeout", "screenshot_error"}
           /\ Made(a, "screenshot_after_submit") =>
                 /\ a.exc = "none"
                 /\ wk[w].pc \in {"verify", "finally", "append", "emit_error"}
                 /\ wk[w].pc # "verify" =>
                       a.ret.status = IF a.classified.is_success THEN "SUCCESS" ELSE "FAILED"
           /\ Made(a, "screenshot_captcha_failed") =>
                 a.exc = "none" /\ a.ret.status = "CAPTCHA_REQUIRED"
           /\ Made(a, "screenshot_timeout") =>
                 a.exc = "timeout" /\ a.ret.status = "TIMEOUT"
           /\ Made(a, "screenshot_error") =>
                 a.exc = "error" /\ a.ret.status = "ERROR"
           /\ (ScreenshotCalls(a) # {} /\ a.ret # NoResult) =>
                 /\ a.ret.screenshot_path = a.screenshot_path
                 /\ \A i \in ScreenshotCalls(a) :
                       "screenshot_" \o a.screenshot_path \in {"screenshot_", a.log[i]}

\* The after_submit screenshot failed and the attempt has returned SUCCESS,
\* with an empty screenshot path, to the loop.
C18_Witness ==
    \E w \in Workers :
        /\ wk[w].pc = "append"
        /\ Calls(att[w], "screenshot_after_submit") = 1
        /\ att[w].ret.screenshot_path = ""
        /\ att[w].ret.status = "SUCCESS"

\* The URL test of layer 1, from the words of the URLs: the current URL is not
\* the original URL and none of its words is, in lower case, error, login or
\* signin.
ChangedToTokenFreeUrl(c) ==
    /\ c.page.url # c.original_url
    /\ \A i \in 1..Len(c.page.url) :
         LowerWord(c.page.url[i]) \notin {"error", "login", "signin"}

\* C19: when the current URL differs from the original URL and contains none
\* of the tokens error, login, signin in any case, _verify_login_success
\* returns true without a page probe, whatever the success indicator and the
\* patterns that match or raise on the page.
C19_UrlChangeWinsOverLaterLayers ==
    (cls.pc = "returned" /\ ChangedToTokenFreeUrl(cls)) =>
        /\ cls.verdict.is_success
        /\ cls.verdict.layer = "url_changed"
        /\ cls.verdict.probes = <<>>
        /\ cls.verdict.exc = "none"

\* The call returned true for a changed, token-free URL although a CSS
\* indicator was supplied and does not match, an error signal is on the page
\* and the username field is still present.
C19_Witness ==
    /\ cls.pc = "returned"
    /\ ChangedToTokenFreeUrl(cls)
    /\ cls.success_indicator = <<"#welcome">>
    /\ cls.page.present = {<<".error">>, username_field_pattern}
    /\ cls.verdict.is_success

\* The supplied indicator matches: as a part of the current URL when it starts
\* with http, otherwise as an element of the page.
IndicatorMatches(c) ==
    /\ c.success_indicator # <<>>
    /\ IF c.success_indicator[1] = "http"
       THEN \E i \in 0..Len(c.page.url) :
               /\ i + Len(c.success_indicator) <= Len(c.page.url)
               /\ \A j \in 1..Len(c.success_indicator) :
                    c.page.url[i + j] = c.success_indicator[j]
       ELSE c.success_indicator \in c.page.present /\ c.page.raising # c.success_indicator

ErrorSignals(p) == {i \in DOMAIN error_patterns : error_patterns[i] \in p.present}

SuccessSignals(p) == {i \in DOMAIN success_patterns : success_patterns[i] \in p.present}

UsernameShapedInput(p) == username_field_pattern \in p.present

\* Neither the URL test nor the success indicator decided, and the probe of
\* the indicator returned.
FirstTwoLayersUndecided(c) ==
    /\ ~ChangedToTokenFreeUrl(c)
    /\ ~IndicatorMatches(c)
    /\ ~(c.success_indicator # <<>> /\ c.success_indicator[1] # "http"
         /\ c.page.raising = c.success_indicator)

\* One of the probes the call made raised.
ProbeFailed(c) ==
    \E i \in DOMAIN c.verdict.probes : c.verdict.probes[i] = c.page.raising

\* C21 as stated: when the URL test and the indicator are not decisive, a
\* known error signal on the page gives false even with a known success signal
\* on it, and with no error signal a known success signal gives true even with
\* a username-shaped input on the page.
C21_ErrorThenSuccessThenResidual ==
    (cls.pc = "returned" /\ FirstTwoLayersUndecided(cls)) =>
        /\ ErrorSignals(cls.page) # {} => ~cls.verdict.is_success
        /\ (ErrorSignals(cls.page) = {} /\ SuccessSignals(cls.page) # {}) =>
              cls.verdict.is_success

\* C21 amended: a known error signal gives false in every case; when no probe
\* of the call raised, the error signal is what decided, and with no error
\* signal a known success signal gives true, decided before the username
\* field is looked for.  A probe that raises gives false also with a success
\* signal on the page.
C21_ErrorThenSuccessUnlessProbeFails ==
    (cls.pc = "returned" /\ FirstTwoLayersUndecided(cls)) =>
        /\ ErrorSignals(cls.page) # {} => ~cls.verdict.is_success
        /\ (ErrorSignals(cls.page) # {} /\ ~ProbeFailed(cls)) =>
              cls.verdict.layer = "error_signal"
        /\ (ErrorSignals(cls.page) = {} /\ SuccessSignals(cls.page) # {}
            /\ ~ProbeFailed(cls)) =>
              /\ cls.verdict.is_success
              /\ cls.verdict.layer = "success_signal"
              /\ \A i \in DOMAIN cls.verdict.probes :
                    cls.verdict.probes[i] # username_field_pattern

\* On the unchanged URL, without indicator, the call returned true for a page
\* with a success signal and a username-shaped input.
C21_Witness ==
    /\ cls.pc = "returned"
    /\ cls.page.url = cls.original_url
    /\ cls.success_indicator = <<>>
    /\ cls.page.present = {<<".profile">>, username_field_pattern}
    /\ cls.page.raising = <<>>
    /\ cls.verdict.is_success

\* No layer before the residual one decided: the first two did not, and no
\* known error or success signal is on the page.
FirstFourLayersUndecided(c) ==
    /\ FirstTwoLayersUndecided(c)
    /\ ErrorSignals(c.page) = {}
    /\ SuccessSignals(c.page) = {}

\* C22 as stated: when the first four layers are not decisive, a
\* username-shaped input gives false, and without one the call returns true
\* exactly when the current URL differs from the original URL and has none of
\* the tokens error, login, signin.
C22_ResidualRepeatsUrlTest ==
    (cls.pc = "returned" /\ FirstFourLayersUndecided(cls)) =>
        /\ UsernameShapedInput(cls.page) => ~cls.verdict.is_success
        /\ ~UsernameShapedInput(cls.page) =>
              (cls.verdict.is_success <=> ChangedToTokenFreeUrl(cls))

\* C22 amended: when the first four layers are not decisive, a
\* username-shaped input gives false, and without one, when no probe of the
\* call raised, the call returns true exactly when the current URL differs
\* from the original URL, whatever tokens it has.
C22_ResidualIsUrlInequality ==
    (cls.pc = "returned" /\ FirstFourLayersUndecided(cls)) =>
        /\ UsernameShapedInput(cls.page) => ~cls.verdict.is_success
        /\ (~UsernameShapedInput(cls.page) /\ ~ProbeFailed(cls)) =>
              /\ cls.verdict.layer = "default"
              /\ cls.verdict.is_success <=> (cls.page.url # cls.original_url)

\* The call returned true by its last statement for a page at a changed URL
\* that has the token signin and shows no signal and no username field.
C22_Witness ==
    /\ cls.pc = "returned"
    /\ cls.page.url = <<"http", "site", "signin">>
    /\ cls.original_url = <<"http", "site", "login">>
    /\ cls.page.present = {}
    /\ cls.page.raising = <<>>
    /\ cls.verdict.layer = "default"
    /\ cls.verdict.is_success

Matches(dom, pattern) == pattern \in dom.found /\ pattern \notin dom.failing

\* The places of the role's list whose pattern matches.
MatchingPlaces(dom, role) ==
    {i \in DOMAIN RolePatterns(role) : Matches(dom, RolePatterns(role)[i])}

\* C25: for each role, detect_login_form returns None exactly when no pattern
\* of the role's list matches, and otherwise the matching pattern that comes
\* first in the list, whatever later patterns match too.
C25_EarliestMatchingPatternWins ==
    det.pc = "returned" =>
        \A role \in Roles :
            LET places == MatchingPlaces(det.dom, role)
            IN /\ det.selectors[role] = None <=> places = {}
               /\ places # {} =>
                     \E i \in places :
                         /\ det.selectors[role] = RolePatterns(role)[i]
                         /\ \A j \in places : i <= j

\* Two username patterns match and the one that comes first in the list was
\* returned.
C25_Witness ==
    /\ det.pc = "returned"
    /\ det.dom.found = {"input[name='username']", "input[type='email']"}
    /\ det.dom.failing = {}
    /\ det.selectors.username = "input[type='email']"

\* C26: detect_login_form returns whatever probes raise, and no exception
\* leaves the try block of a probe; a pattern whose probe raised is not
\* returned; a pattern that matches after patterns of its role whose probes
\* raised is returned when none before it matches; when every probe raises,
\* the four roles are None.
C26_FailingProbeIsSkipped ==
    det.pc = "returned" =>
        /\ ~det.caught
        /\ \A role \in Roles :
              LET patterns == RolePatterns(role)
              IN /\ det.selectors[role] \notin det.dom.failing
                 /\ \A i, j \in DOMAIN patterns :
                       ( /\ i < j
                         /\ patterns[i] \in det.dom.failing
                         /\ Matches(det.dom, patterns[j])
                         /\ \A k \in 1..(j - 1) : ~Matches(det.dom, patterns[k]) ) =>
                           det.selectors[role] = patterns[j]
        /\ det.dom.failing = AllPatterns =>
              \A role \in Roles : det.selectors[role] = None

\* The probe of the first password pattern raised and the second pattern,
\* which matches, was returned.
C26_Witness ==
    /\ det.pc = "returned"
    /\ det.dom.failing = {"input[type='password']"}
    /\ det.dom.found = {"input[name*='pass']"}
    /\ det.selectors.password = "input[name*='pass']"

SentBy(w) == {i \in 1..Len(queue) : queue[i].from = w}

\* C28: when the session of worker w could not be started (the constructor or
\* automation.start() raised), no attempt was entered, no result was appended
\* and the run has sent nothing; its next step sends one error signal,
\* nothing else, and ends the run.
C28_SessionStartFailureIsOneError ==
    [][ \A w \in Workers :
          (wk[w].pc = "emit_error" /\ wk[w].automation # "started") =>
              /\ wk[w].nstarted = 0
              /\ wk[w].results = <<>>
              /\ att[w] = NoAttempt
              /\ SentBy(w) = {}
              /\ wk'[w] # wk[w] =>
                    /\ queue' = Append(queue, [from |-> w, signal |-> "error", arg |-> <<>>])
                    /\ wk'[w].pc = "done" ]_vars

\* automation.start() of a run with two credentials has raised: the run is
\* about to send its error signal.
C28_Witness ==
    \E w \in Workers :
        /\ wk[w].pc = "emit_error"
        /\ wk[w].automation = "constructed"
        /\ wk[w].credentials = 2
        /\ gui.worker = w

\* solve_captcha was called in the attempt of worker w and something went
\* wrong in it: no image, a failed capture, a recogniser that raised or
\* returned nothing.
CaptchaFailed(w) == Made(att[w], "solve_captcha") /\ ~Truthy(att[w].captcha_text)

IsTrimOf(t, raw) ==
    LET str == IF raw = NoString THEN <<>> ELSE raw
    IN \E i \in 0..Len(str) : \E j \in i..Len(str) :
          /\ t = [k \in 1..(j - i) |-> str[i + k]]
          /\ \A k \in 1..i : str[k] \in {" ", "\t"}
          /\ \A k \in (j + 1)..Len(str) : str[k] \in {" ", "\t"}
          /\ j > i => (str[i + 1] \notin {" ", "\t"} /\ str[j] \notin {" ", "\t"})

\* raw is given and has a character that is not whitespace.
HasVisibleCharacter(raw) ==
    raw # NoString /\ \E k \in 1..Len(raw) : raw[k] \notin {" ", "\t"}

\* C30: the username, the password and the note of a Credential are the
\* constructor's arguments without leading and trailing whitespace (empty for
\* None), and is_valid() is true exactly when the username argument and the
\* password argument each have a character that is not whitespace.
C30_CredentialTrimmedAndValidity ==
    cred.pc \in {"constructed", "validated"} =>
        /\ IsTrimOf(cred.obj.username, cred.args.username)
        /\ IsTrimOf(cred.obj.password, cred.args.password)
        /\ IsTrimOf(cred.obj.note, cred.args.note)
        /\ cred.pc = "validated" =>
              (cred.valid <=> /\ HasVisibleCharacter(cred.args.username)
                              /\ HasVisibleCharacter(cred.args.password))

\* A Credential built from a username with whitespace on both sides is valid
\* and stores the username without it.
C30_Witness ==
    /\ cred.pc = "validated"
    /\ cred.args.username = <<" ", "a", "\t">>
    /\ cred.args.password = <<"a", " ">>
    /\ cred.obj.username = <<"a">>
    /\ cred.obj.password = <<"a">>
    /\ cred.valid

\* The places of the username whose character is a letter, a digit, a hyphen
\* or an underscore.
KeptPlaces(username) ==
    {i \in 1..Len(username) : username[i] \in {"a", "7", "U+00E9", "-", "_"}}

\* The k-th smallest element of a set of numbers.
Kth(places, k) == CHOOSE i \in places : Cardinality({j \in places : j <= i}) = k

\* The number a sequence of decimal digits writes.
RECURSIVE DecimalValue(_)
DecimalValue(digits) ==
    IF digits = <<>> THEN 0
    ELSE 10 * DecimalValue(SubSeq(digits, 1, Len(digits) - 1))
         + (CHOOSE d \in 0..9 : Decimal(d) = <<digits[Len(digits)]>>)

\* C31: the file name _save_screenshot builds is the kept characters of the
\* username in their order, an underscore, the timestamp in decimal, an
\* underscore, the suffix and .png; a character that is not a letter, a
\* digit, a hyphen or an underscore does not occur in the first part.
C31_ScreenshotFileName ==
    shot.pc = "returned" =>
        LET places == KeptPlaces(shot.username)
            n == Cardinality(places)
            name == shot.filename
            d == Len(name) - n - 4
        IN /\ d >= 1
           /\ \A k \in 1..n : name[k] = shot.username[Kth(places, k)]
           /\ name[n + 1] = "_"
           /\ \A k \in (n + 2)..(n + 1 + d) :
                 name[k] \in {"0", "1", "2", "3", "4", "5", "6", "7", "8", "9"}
           /\ d > 1 => name[n + 2] # "0"
           /\ DecimalValue(SubSeq(name, n + 2, n + 1 + d)) = shot.timestamp
           /\ name[n + d + 2] = "_"
           /\ <<name[n + d + 3]>> = shot.suffix
           /\ name[n + d + 4] = ".png"
           /\ shot.path # <<>> => SubSeq(shot.path, 3, Len(shot.path)) = name

\* The screenshot of user a@- at time 10 after a timeout was saved as
\* a-_10_timeout.png.
C31_Witness ==
    /\ shot.pc = "returned"
    /\ shot.username = <<"a", "@", "-">>
    /\ shot.timestamp = 10
    /\ shot.filename = <<"a", "-", "_", "1", "0", "_", "timeout", ".png">>
    /\ shot.path # <<>>

\* The counts of a result sequence split it: the total is its length, the
\* error-like count is the number of results that are neither SUCCESS nor
\* FAILED, and the three counts add up to the total.
IsPartitionOf(counts, rs) ==
    /\ counts.total = Len(rs)
    /\ counts.success = Cardinality({i \in 1..Len(rs) : rs[i].status = "SUCCESS"})
    /\ counts.failed = Cardinality({i \in 1..Len(rs) : rs[i].status = "FAILED"})
    /\ counts.errors =
          Cardinality({i \in 1..Len(rs) : rs[i].status \notin {"SUCCESS", "FAILED"}})
    /\ counts.total = counts.success + counts.failed + counts.errors

\* C32 as stated: the summary of batch_login splits its result sequence, and
\* the statistics recomputed after every shown result split the results
\* shown so far.
C32_SummaryIsPartition ==
    /\ summ.pc = "summarised" => IsPartitionOf(summ.summary, summ.results)
    /\ summ.pc # "none" => IsPartitionOf(summ.statistics, summ.shown)

OnlyCredentialFieldsSupplied(w) ==
    wk[w].selectors = Selectors({"username", "password"}, "explicit")

OwnPatterns(role) == {RolePatterns(role)[i] : i \in DOMAIN RolePatterns(role)}

\* The page dom with the probes of the other roles' patterns all matching
\* ("found"), all not matching ("absent") or all raising ("raises"), and the
\* probes of the role's own patterns as they are.
WithOtherRoles(dom, role, outcome) ==
    LET own == OwnPatterns(role)
        others == AllPatterns \ own
    IN DomSnapshot((dom.found \cap own) \cup (IF outcome = "found" THEN others ELSE {}),
                   (dom.failing \cap own) \cup (IF outcome = "raises" THEN others ELSE {}))

\* C35: the selector returned for a role is the one returned for that role on
\* the page that agrees on the role's own patterns and on which the patterns
\* of the other roles all match, all do not match or all raise: the other
\* roles' probes have no part in it.
C35_RolesAreIndependent ==
    det.pc = "returned" =>
        \A role \in Roles : \A outcome \in {"found", "absent", "raises"} :
            det.selectors[role] =
                detect_login_form(WithOtherRoles(det.dom, role, outcome)).selectors[role]

\* The probe of a username pattern raised, no username pattern matches, and
\* the password pattern that matches was returned all the same.
C35_Witness ==
    /\ det.pc = "returned"
    /\ det.dom.failing = {"input[name='username']"}
    /\ det.dom.found = {"input[type='password']"}
    /\ det.selectors.username = None
    /\ det.selectors.password = "input[type='password']"
    /\ det.selectors.captcha = None

\* The signal a step of worker w posts: the last message of the queue when
\* the step appended one sent by w, and no signal otherwise.
Posted(w) ==
    IF /\ Len(queue') = Len(queue) + 1
       /\ SubSeq(queue', 1, Len(queue)) = queue
       /\ queue'[Len(queue')].from = w
    THEN queue'[Len(queue')]
    ELSE [from |-> w, signal |-> "none", arg |-> <<>>]

TerminalSignals == {"finished", "error"}

\* The run of worker w ends in this step.
RunEnds(w) == wk[w].pc # "done" /\ wk'[w].pc = "done"

\* C36: the step that ends a run posts one terminal signal, finished or
\* error, and a terminal signal is posted by no other step, so a run posts
\* one and only one; finished carries the results of the run, which are the
\* results posted so far in their order, since each result signal is posted
\* by the step that appends that result and the results change in no other
\* way during a run; a result or progress signal is posted only by a run
\* that has not ended; and the results finished carries are the ones the
\* window has been given when it handles the signal.
C36_ExactlyOneTerminalSignal ==
    [][ /\ (queue # <<>> /\ Head(queue).signal = "finished" /\ queue' = Tail(queue)) =>
              Head(queue).arg = gui.results
        /\ \A w \in Workers :
          LET m == Posted(w)
          IN /\ RunEnds(w) <=> m.signal \in TerminalSignals
             /\ m.signal = "finished" => m.arg = wk[w].results
             /\ m.signal = "result" =>
                   /\ wk[w].pc # "done" /\ wk'[w].pc # "done"
                   /\ wk'[w].results = Append(wk[w].results, m.arg)
             /\ m.signal = "progress" => wk[w].pc # "done" /\ wk'[w].pc # "done"
             /\ (wk[w].pc # "done" /\ wk'[w].pc # "done"
                    /\ wk'[w].results # wk[w].results) => m.signal = "result"
             /\ (wk[w].pc = "done" /\ wk'[w].pc # "done") =>
                   wk'[w].results = <<>> /\ m.signal = "none" ]_vars

\* A run has ended with the finished signal, which carries two results and
\* is in the queue behind the second result signal.
C36_Witness ==
    \E w \in Workers : \E i \in 2..Len(queue) :
        /\ wk[w].pc = "done"
        /\ queue[i] = [from |-> w, signal |-> "finished", arg |-> queue[i].arg]
        /\ Len(queue[i].arg) = 2
        /\ queue[i - 1] = [from |-> w, signal |-> "result", arg |-> queue[i].arg[2]]

\* The finished signal of worker w is in the window's queue.
FinishedPosted(w) ==
    \E i \in 1..Len(queue) : queue[i].from = w /\ queue[i].signal = "finished"

\* Stop was requested during the loop of worker w and its run has not ended.
CancelRequested(w) == ~wk[w].is_running /\ wk[w].automation = "started"

\* C37 as stated: with worker threads that keep running, a run whose stop
\* was requested during its loop posts the finished signal, and it has then
\* emitted at most one result more than had returned when stop was
\* requested: the one of the attempt in flight, and none when stop came
\* between attempts.
C37_CancelledRunEmitsFinished ==
    /\ [](cancel_at.phase \in {"inflight", "between"} =>
            Len(wk[gui.worker].results) <=
               cancel_at.completed + (IF cancel_at.phase = "inflight" THEN 1 ELSE 0))
    /\ \A w \in Workers : CancelRequested(w) ~> FinishedPosted(w)

\* C38: the step that ends the run of worker w, on whichever path, enters
\* automation.stop() once when the automation object was constructed and not
\* when it was not; it is taken with no attempt in flight; no other step of
\* a worker enters stop(); stop() returns without posting a signal or
\* changing a worker, so nothing is raised out of it; and an attempt is
\* started only by a run that has not ended and whose browser is started.
C38_StopOnceOnEveryExit ==
    [][ /\ \A w \in Workers :
            /\ RunEnds(w) =>
                  /\ wk[w].pc \in {"emit_finished", "emit_error"}
                  /\ ~InFlight(w)
                  /\ stopping' = stopping + (IF wk[w].automation # "none" THEN 1 ELSE 0)
            /\ wk'[w].nstarted > wk[w].nstarted =>
                  /\ wk[w].pc = "loop" /\ wk'[w].pc # "done"
                  /\ wk[w].automation = "started"
        /\ stopping' > stopping => \E w \in Workers : RunEnds(w)
        /\ stopping' < stopping =>
              /\ stopping' = stopping - 1
              /\ queue' = queue
              /\ wk' = wk /\ att' = att ]_vars

\* A run has ended with the error signal after it had emitted a result (an
\* exception in the loop) and its thread is in automation.stop().
C38_Witness ==
    \E w \in Workers : \E i, j \in 1..Len(queue) :
        /\ stopping = 1
        /\ wk[w].pc = "done"
        /\ i < j
        /\ queue[i].from = w /\ queue[i].signal = "result"
        /\ queue[j].from = w /\ queue[j].signal = "error"

====
